---- MODULE Spec2Model ----
(***************************************************************************)
(* CN.py: every raw elemental-analyzer file of rawdata_new is read and     *)
(* tested, its rows are grouped into analyses, the gas mode of the file is *)
(* detected, every analysis is classified into the four peak slots         *)
(* (N-reference, N-sample, C-sample, C-reference) with a trust flag and    *)
(* notes, the records are appended to the two analysis logs and the file   *)
(* is archived or put in the junk folder.                                  *)
(***************************************************************************)
EXTENDS Integers, Sequences, FiniteSets, TLC

\* ------------------------------------------------------------------ bounds
\* rows of a file that holds several analyses
MaxRows == 5
\* rows of a file that holds a single analysis (peak count of the analysis)
MaxPeaks == 7
\* rows of a single-analysis file whose amplitude / AreaAll cells vary
MaxSatPeaks == 5
\* rows of a file that fails the test for file problems
MaxBadRows == 3
\* files of rawdata_new after the first one
MaxLater == 1
\* rows of a file whose first analysis has a single peak
MaxLoneRows == 3
\* characters of a field of a log record
MaxFieldLen == 2
\* fields of a log record
NFields == 3
\* records of a log whose files, trust flags and identifiers vary
MaxCalRecords == 3
\* records of a log whose blank and sample values vary
MaxBlankRecords == 3
\* raw files of a log of complete runs
MaxRuns == 2

\* ------------------------------------------------------- program constants
\* CN.py:81 and CN.py:90, the saturation threshold
SatLimit == 49950

\* ------------------------------------------------------------ cell values
\* read_file returns every cell as a string, or None for an empty cell.
\* A numeric string is kept as the integer its digits denote; the int that
\* int() makes of it is a cell of type "int".
NoneCell == [type |-> "NoneType", val |-> 0]
Str(n) == [type |-> "str", val |-> n]

\* a string that is not the decimal form of an integer ('abc', '1.5')
TextCell == [type |-> "text", val |-> 0]

\* Python int(x): the number of a numeric string; TypeError on None,
\* ValueError on a string that is not the decimal form of an integer
IntRaises(cell) == cell.type = "NoneType"
IntValueError(cell) == cell.type = "text"
int(cell) == cell.val

\* Python type(x) == int
TypeIsInt(cell) == cell.type = "int"

Channels == {"Ampl28", "Ampl29", "Ampl44", "Ampl45", "Ampl46"}
Labels == {"N2", "CO2", "Other"}

\* one row of the file: Row is the row's place in the file and stands for
\* the fields that are only copied (PeakNr, Start, Width, Area28, ...)
MkRow(i, a, g, ampl, area) ==
    [Row |-> i, Analysis |-> a, Gas |-> g,
     Ampl28 |-> ampl["Ampl28"], Ampl29 |-> ampl["Ampl29"],
     Ampl44 |-> ampl["Ampl44"], Ampl45 |-> ampl["Ampl45"],
     Ampl46 |-> ampl["Ampl46"], AreaAll |-> area]

\* what N_wg_none / N_sam_none / C_sam_none / C_wg_none append: every field None
NoneSlot ==
    [Row |-> 0, Analysis |-> 0, Gas |-> "None",
     Ampl28 |-> NoneCell, Ampl29 |-> NoneCell,
     Ampl44 |-> NoneCell, Ampl45 |-> NoneCell,
     Ampl46 |-> NoneCell, AreaAll |-> NoneCell]

VARIABLES
    data,                    \* the rows of the file being processed
    hasGas,                  \* the file has a gas-configuration column
    pc,                      \* where the pass over the file stands
    sample_index_first_row,  \* 0-based first row of every analysis
    rows_per_sample,         \* row count of every analysis
    run_type,                \* "CN", "N", "C", "unk"
    k,                       \* the analysis the main loop is at (1-based)
    meta_data, N_wg_data, N_sam_data, C_sam_data, C_wg_data, supp_data,
    last,                    \* what the latest loop iteration did
    exhaustive_log,          \* CN_exhaustive_analysis_log.csv
    project_log,             \* <project>_analysis_log.csv
    file,                    \* the name of the file being processed
    filelist,                \* the files of rawdata_new still to be read
    hasAnalysis,             \* the file has an Analysis column
    place,                   \* the directory every file of the batch is in
    exception,               \* the exception that ended the program, if any
    \* one record on its way through an analysis log file
    row_to_write,            \* the fields handed to csv.writer.writerow
    csvfile,                 \* the characters of the line in the log file
    row_read,                \* the fields read_file returns for the line
    io_pc,                   \* "idle", "record", "written", "read"
    \* CN_calibrate.py
    unify,                   \* the --unify argument
    log_data,                \* the records read from the project analysis log
    runs_indices,            \* runs['indices']: the record indices of every run
    current_run_index,       \* the run the loop over the runs is at (1-based)
    cal_pc,                  \* where the calibration of the run stands
    trust1_currrun_indices,  \* the trusted records of the run
    current_data_set,        \* the records of the run that are kept
    cat_index,               \* <category>['index'] of every category
    non_samples_indices,
    sample_indices,
    blank,                   \* blank['size_Vs'] and blank['d15N']
    N_sam_AreaAll_blank_corr,
    d15N_blank_corr,
    calculation_notes,
    chosen_input,            \* the reference materials the user enters
    run_names,               \* runs['names']
    ref_mat,                 \* ref_mat['id1_set'], ['chosen'], ['qaqc'], fits, ...
    ref_mat_globals,         \* what the run leaves in every reference material's dict
    qtycal,                  \* qtycal['Nfit'], qtycal['Cfit']
    Nqty, Cqty, PercentN, PercentC,
    d15N_drift_corr, d13C_drift_corr,
    d15N_AirN2, d13C_VPDB,
    cal_exception,           \* the exception that ended CN_calibrate.py, if any
    runs_dict,               \* runs[<run name>]
    calibrated_data_files,   \* <run name>_CN_calibrated_data.csv
    summary_data_file,       \* <project>_summary.csv
    report                   \* <run name>_report of every run name

\* the state of CN.py's pass over the raw files
cn_vars == <<data, hasGas, pc, sample_index_first_row, rows_per_sample, run_type,
             k, meta_data, N_wg_data, N_sam_data, C_sam_data, C_wg_data,
             supp_data, last, exhaustive_log, project_log, file, filelist,
             hasAnalysis, place, exception>>

\* the state of a record's way through a log file
io_vars == <<row_to_write, csvfile, row_read, io_pc>>

\* the state of CN_calibrate.py
\* what a run computes after the blank correction
fit_vars == <<chosen_input, run_names, ref_mat, ref_mat_globals, qtycal,
              Nqty, Cqty, PercentN, PercentC, d15N_drift_corr, d13C_drift_corr,
              d15N_AirN2, d13C_VPDB, cal_exception>>

\* what the runs leave behind
out_vars == <<runs_dict, calibrated_data_files, summary_data_file, report>>

cal_vars == <<unify, log_data, runs_indices, current_run_index, cal_pc,
              trust1_currrun_indices, current_data_set, cat_index,
              non_samples_indices, sample_indices, blank,
              N_sam_AreaAll_blank_corr, d15N_blank_corr, calculation_notes,
              fit_vars, out_vars>>

vars == <<cn_vars, io_vars, cal_vars>>

\* ------------------------------------------------------- Analysis Grouper
\* Python enumerate(): the 0-based indices of a list of length n
Enumerate(n) == [i \in 1..n |-> i - 1]

\* Python sorted() on a list of integers (insertion sort)
RECURSIVE Insert(_, _)
Insert(x, seq) ==
    IF seq = <<>> THEN <<x>>
    ELSE IF x <= Head(seq) THEN <<x>> \o seq
    ELSE <<Head(seq)>> \o Insert(x, Tail(seq))

RECURSIVE sorted(_)
sorted(seq) == IF seq = <<>> THEN <<>> ELSE Insert(Head(seq), sorted(Tail(seq)))

\* CN.py:221  [j - index for index, j in zip(col[:-1], col[1:])]
analysis_difference(col) == [i \in 1..(Len(col) - 1) |-> col[i + 1] - col[i]]

\* a boundary only where the id grows
IsBoundary_growing(e) == e > 0

\* the test of CN.py:222 on one difference
IsBoundary(e) == e # 0

\* CN.py:222-225
first_rows(col) ==
    LET diff == analysis_difference(col)
        hits == SelectSeq(Enumerate(Len(diff)), LAMBDA i : IsBoundary(diff[i + 1]))
        plus1 == [i \in 1..Len(hits) |-> hits[i] + 1]
    IN  sorted(Append(plus1, 0))

\* CN.py:228-229
row_counts(col, first) ==
    Append([i \in 1..(Len(first) - 1) |-> first[i + 1] - first[i]],
           Len(col) - first[Len(first)])

\* ---------------------------------------------------------------- run type
\* CN.py:235-240: the set of labels of the gas column, or the characters of
\* the string 'undefined' when the file has no such column
gas_configuration(rows, gascol) ==
    IF gascol THEN {rows[i].Gas : i \in 1..Len(rows)}
    ELSE {"u", "n", "d", "e", "f", "i"}

\* the two single-gas modes exchanged
run_type_of_swapped(gc) ==
    IF \E x \in gc : x \in {"N2", "CO2"}
    THEN CASE \A x \in {"N2", "CO2"} : x \in gc -> "CN"
           [] "N2" \notin gc -> "N"
           [] "CO2" \notin gc -> "C"
    ELSE "unk"

\* CN.py:241-249
run_type_of(gc) ==
    IF \E x \in gc : x \in {"N2", "CO2"}
    THEN CASE \A x \in {"N2", "CO2"} : x \in gc -> "CN"
           [] "N2" \notin gc -> "C"
           [] "CO2" \notin gc -> "N"
    ELSE "unk"

\* ------------------------------------------------- one main-loop iteration
\* The effect of one iteration is built up in a record: the entries the
\* iteration appends to each store, the trust flag, the notes, and whether an
\* exception ended it (an exception ends the program: nothing catches it).
\* CN.py:254-256: note = [], trust = 1
Fresh == [N_wg |-> <<>>, N_sam |-> <<>>, C_sam |-> <<>>, C_wg |-> <<>>,
          trust |-> 1, note |-> <<>>, raised |-> FALSE]

\* the row data[...][index + peak_number_offset], index 0-based as in the code
Peak(index, peak_number_offset) == data[index + peak_number_offset + 1]

\* CN.py:121-126 (the print has no effect on the state)
sample_note(s, currnote) ==
    IF s.raised THEN s ELSE [s EXCEPT !.note = Append(@, currnote)]

\* trust = 0  (CN.py:83, 92, 262, 347, 371, 379, 387, 412, 437, 445)
distrust(s) == IF s.raised THEN s ELSE [s EXCEPT !.trust = 0]

\* the threshold itself counted as saturated
OverLimit_orEqual(v) == v >= SatLimit

\* the comparison of CN.py:81 and CN.py:90 on one parsed amplitude
OverLimit(v) == v > SatLimit

\* `int(a) > 49950 or int(b) > 49950 ...` with Python's left-to-right,
\* short-circuit evaluation: "raise" when an int() that is reached fails
RECURSIVE AnyOver(_, _)
AnyOver(row, chans) ==
    IF chans = <<>> THEN "False"
    ELSE IF IntRaises(row[Head(chans)]) THEN "raise"
    ELSE IF OverLimit(int(row[Head(chans)])) THEN "True"
    ELSE AnyOver(row, Tail(chans))

\* CN.py:73-75
append_N_wg_data(s, row) ==
    IF s.raised THEN s ELSE [s EXCEPT !.N_wg = Append(@, row)]

\* CN.py:96-98
append_C_wg_data(s, row) ==
    IF s.raised THEN s ELSE [s EXCEPT !.C_wg = Append(@, row)]

\* CN.py:78-84
append_N_sam_data(s, row) ==
    IF s.raised THEN s
    ELSE LET s1 == [s EXCEPT !.N_sam = Append(@, row)]
             t == AnyOver(row, <<"Ampl28", "Ampl29">>)
         IN  IF t = "raise" THEN [s1 EXCEPT !.raised = TRUE]
             ELSE IF t = "True" THEN sample_note(distrust(s1), "N2 cup saturated")
             ELSE s1

\* CN.py:87-93
append_C_sam_data(s, row) ==
    IF s.raised THEN s
    ELSE LET s1 == [s EXCEPT !.C_sam = Append(@, row)]
             t == AnyOver(row, <<"Ampl44", "Ampl45", "Ampl46">>)
         IN  IF t = "raise" THEN [s1 EXCEPT !.raised = TRUE]
             ELSE IF t = "True" THEN sample_note(distrust(s1), "CO2 cup saturated")
             ELSE s1

\* CN.py:101-118
N_wg_none(s) == IF s.raised THEN s ELSE [s EXCEPT !.N_wg = Append(@, NoneSlot)]
N_sam_none(s) == IF s.raised THEN s ELSE [s EXCEPT !.N_sam = Append(@, NoneSlot)]
C_sam_none(s) == IF s.raised THEN s ELSE [s EXCEPT !.C_sam = Append(@, NoneSlot)]
C_wg_none(s) == IF s.raised THEN s ELSE [s EXCEPT !.C_wg = Append(@, NoneSlot)]

all_none(s) == C_wg_none(C_sam_none(N_sam_none(N_wg_none(s))))

\* list.count(label) over data[gas][index:index + rows]
count(index, rows, label) ==
    Cardinality({o \in 0..(rows - 1) : Peak(index, o).Gas = label})

\* CN.py:261-268
CN1(index) == all_none(sample_note(distrust(Fresh), "Only one peak detected; "))

\* the two label tests exchanged
CN2_swappedLabels(index) ==
    LET s1 == append_N_wg_data(Fresh, Peak(index, 0))
        gas == Peak(index, 1).Gas
    IN  IF gas = "CO2"
        THEN C_wg_none(C_sam_none(append_N_sam_data(
                 sample_note(s1, "No carbon peaks"), Peak(index, 1))))
        ELSE IF gas = "N2"
        THEN append_C_wg_data(C_sam_none(N_sam_none(
                 sample_note(s1, "No nitrogen or carbon sample peaks"))), Peak(index, 1))
        ELSE s1

\* CN.py:270-286
CN2(index) ==
    LET s1 == append_N_wg_data(Fresh, Peak(index, 0))
        gas == Peak(index, 1).Gas
    IN  IF gas = "N2"
        THEN C_wg_none(C_sam_none(append_N_sam_data(
                 sample_note(s1, "No carbon peaks"), Peak(index, 1))))
        ELSE IF gas = "CO2"
        THEN append_C_wg_data(C_sam_none(N_sam_none(
                 sample_note(s1, "No nitrogen or carbon sample peaks"))), Peak(index, 1))
        ELSE s1

\* CN.py:288-304
CN3(index) ==
    LET s1 == append_N_wg_data(Fresh, Peak(index, 0))
        gas == Peak(index, 1).Gas
        s2 == IF gas = "N2" THEN C_sam_none(append_N_sam_data(s1, Peak(index, 1)))
              ELSE IF gas = "CO2" THEN append_C_sam_data(N_sam_none(s1), Peak(index, 1))
              ELSE s1
    IN  append_C_wg_data(s2, Peak(index, 2))

\* the two sample peaks exchanged
CN4_swapped(index) ==
    append_C_wg_data(
        append_C_sam_data(
            append_N_sam_data(
                append_N_wg_data(Fresh, Peak(index, 0)),
                Peak(index, 2)),
            Peak(index, 1)),
        Peak(index, 3))

\* CN.py:306-321
CN4(index) ==
    append_C_wg_data(
        append_C_sam_data(
            append_N_sam_data(
                append_N_wg_data(Fresh, Peak(index, 0)),
                Peak(index, 1)),
            Peak(index, 2)),
        Peak(index, 3))

\* CN.py:336: the comparison is made only when both AreaAll values are ints
area_test(a, b) ==
    IF TypeIsInt(a) /\ TypeIsInt(b)
    THEN (IF int(a) > int(b) THEN "True" ELSE "False")
    ELSE "None"

\* CN.py:325-353, the branch `count('N2') == 2`
CN5_extraCO2(index) ==
    LET s1 == sample_note(Fresh, "extra CO2 peak detected")
        s2 == append_N_wg_data(s1, Peak(index, 0))
        s3 == append_N_sam_data(s2, Peak(index, 1))
        test == area_test(Peak(index, 2).AreaAll, Peak(index, 3).AreaAll)
        s4 == IF test = "True"
              THEN append_C_sam_data(
                       sample_note(s3, "using larger first of two sample peaks"),
                       Peak(index, 2))
              ELSE IF test = "False"
              THEN append_C_sam_data(
                       sample_note(s3, "using larger second of two sample peaks"),
                       Peak(index, 3))
              ELSE C_sam_none(sample_note(distrust(s3), "problem with AreaAll data"))
    IN  append_C_wg_data(s4, Peak(index, 4))

\* the carbon sample taken from the third peak (offset 2)
CN5_extraN2_third(index) ==
    sample_note(
        append_C_wg_data(
            append_C_sam_data(N_sam_none(N_wg_none(Fresh)), Peak(index, 2)),
            Peak(index, 4)),
        "5 peaks in sample and N2 has extra")

\* CN.py:355-365, the branch `count('CO2') == 2`
CN5_extraN2(index) ==
    sample_note(
        append_C_wg_data(
            append_C_sam_data(N_sam_none(N_wg_none(Fresh)), Peak(index, 3)),
            Peak(index, 4)),
        "5 peaks in sample and N2 has extra")

\* CN.py:366-372
CN5_unexpected(index) ==
    sample_note(distrust(all_none(Fresh)),
                "5 peaks in sample but something unexpected happened")

\* the branch for an extra N2 peak left out
CN5_noExtraN2(index) ==
    IF count(index, 5, "N2") = 2 THEN CN5_extraCO2(index)
    ELSE CN5_unexpected(index)

\* CN.py:323-372
CN5(index) ==
    IF count(index, 5, "N2") = 2 THEN CN5_extraCO2(index)
    ELSE IF count(index, 5, "CO2") = 2 THEN CN5_extraN2(index)
    ELSE CN5_unexpected(index)

\* CN.py:374-380
CN6(index) == sample_note(distrust(all_none(Fresh)), "6 peaks in sample")

\* CN.py:382-388
CNmany(index) == sample_note(distrust(all_none(Fresh)), "too many peaks causes anxiety")

\* six peaks taken for the four peaks of a complete analysis
classify_CN_sixAsFour(index, rows) ==
    IF rows = 1 THEN CN1(index)
    ELSE IF rows = 2 THEN CN2(index)
    ELSE IF rows = 3 THEN CN3(index)
    ELSE IF rows = 4 \/ rows = 6 THEN CN4(index)
    ELSE IF rows = 5 THEN CN5(index)
    ELSE CNmany(index)

\* CN.py:259-388
classify_CN(index, rows) ==
    IF rows = 1 THEN CN1(index)
    ELSE IF rows = 2 THEN CN2(index)
    ELSE IF rows = 3 THEN CN3(index)
    ELSE IF rows = 4 THEN CN4(index)
    ELSE IF rows = 5 THEN CN5(index)
    ELSE IF rows = 6 THEN CN6(index)
    ELSE CNmany(index)

\* CN.py:390-413
classify_N(index, rows) ==
    LET s1 == C_wg_none(C_sam_none(Fresh))
    IN  IF rows = 4 THEN N_sam_none(append_N_wg_data(s1, Peak(index, 1)))
        ELSE IF rows = 5
        THEN sample_note(
                 append_N_sam_data(append_N_wg_data(s1, Peak(index, 1)), Peak(index, 4)),
                 "No nitrogen sample peaks")
        ELSE sample_note(distrust(N_sam_none(N_wg_none(s1))),
                         "Number of peaks suggests an error")

\* CN.py:415-438
classify_C(index, rows) ==
    LET s1 == N_sam_none(N_wg_none(Fresh))
    IN  IF rows = 4 THEN C_sam_none(append_C_wg_data(s1, Peak(index, 1)))
        ELSE IF rows = 5
        THEN sample_note(
                 append_C_sam_data(append_C_wg_data(s1, Peak(index, 1)), Peak(index, 4)),
                 "No carbon sample peaks")
        ELSE sample_note(distrust(C_sam_none(C_wg_none(s1))),
                         "Number of peaks suggests and error")

\* CN.py:440-446

\* CN.py:258-446
classify(rt, index, rows) ==
    IF rt = "CN" THEN classify_CN(index, rows)
    ELSE IF rt = "N" THEN classify_N(index, rows)
    ELSE IF rt = "C" THEN classify_C(index, rows)
    ELSE sample_note(distrust(all_none(Fresh)), "Run type unknown")

\* ------------------------------------------------------------ input files
AmplAll(v) == [c \in Channels |-> Str(v)]
AmplLow == AmplAll(SatLimit - 1)
DefaultArea == Str(20)
\* a file of several analyses: any id column, any labels, unsaturated peaks
FileGrouped(f) ==
    \E n \in 1..MaxRows : \E ids \in [1..n -> {1, 2}], gas \in [1..n -> Labels] :
        f = [i \in 1..n |-> MkRow(i, Str(ids[i]), gas[i], AmplLow, DefaultArea)]

\* a file of one analysis of up to MaxPeaks peaks: any labels, unsaturated peaks
FileOneAnalysis(f) ==
    \E n \in 1..MaxPeaks : \E gas \in [1..n -> Labels] :
        f = [i \in 1..n |-> MkRow(i, Str(1), gas[i], AmplLow, DefaultArea)]

\* a file of one analysis of up to MaxPeaks peaks, every amplitude cell alike
FileUniformAmpl(f) ==
    \E n \in 1..MaxPeaks :
      \E gas \in [1..n -> Labels],
         ampl \in {AmplAll(SatLimit), AmplAll(SatLimit + 1), [c \in Channels |-> NoneCell]} :
        f = [i \in 1..n |-> MkRow(i, Str(1), gas[i], ampl, DefaultArea)]

\* a file whose first analysis has a single peak, every amplitude cell alike
FileLonePeak(f) ==
    \E n \in 2..MaxLoneRows :
      \E gas \in [1..n -> Labels],
         ampl \in {AmplAll(SatLimit), AmplAll(SatLimit + 1), [c \in Channels |-> NoneCell]} :
        f = [i \in 1..n |->
                MkRow(i, IF i = 1 THEN Str(1) ELSE Str(2), gas[i], ampl, DefaultArea)]

\* a file of one analysis, one amplitude cell above the threshold or empty
FileOneCell(f) ==
    \E n \in 1..MaxSatPeaks :
        \E gas \in [1..n -> {"N2", "CO2"}], r \in 1..n, c \in Channels,
           cell \in {Str(SatLimit + 1), NoneCell} :
            f = [i \in 1..n |->
                    MkRow(i, Str(1), gas[i],
                          IF i = r THEN [AmplLow EXCEPT ![c] = cell] ELSE AmplLow,
                          DefaultArea)]

\* a file of one analysis whose third and fourth AreaAll cells vary
FileAreas(f) ==
    \E n \in 4..MaxSatPeaks :
        \E gas \in [1..n -> Labels], a3 \in {Str(10), Str(30), NoneCell}, a4 \in {Str(10), Str(30), NoneCell} :
            f = [i \in 1..n |->
                    MkRow(i, Str(1), gas[i], AmplLow,
                          IF i = 3 THEN a3 ELSE IF i = 4 THEN a4 ELSE DefaultArea)]

\* a file without a gas-configuration column
FileNoGas(f) ==
    \E n \in 1..MaxRows : \E ids \in [1..n -> {1, 2}] :
        f = [i \in 1..n |-> MkRow(i, Str(ids[i]), "None", AmplLow, DefaultArea)]

\* a file whose Analysis column holds a cell that int() does not accept:
\* text or an empty cell; the rows share one gas label
FileBadIds(f) ==
    \E n \in 1..MaxBadRows :
        \E ids \in [1..n -> {Str(1), TextCell, NoneCell}], g \in {"N2", "Other"} :
            /\ \E i \in 1..n : ids[i] # Str(1)
            /\ f = [i \in 1..n |-> MkRow(i, ids[i], g, AmplLow, DefaultArea)]

\* a file without an Analysis column (its rows have no such cell to read)
FileNoAnalysis(f) ==
    \E n \in 1..MaxBadRows : \E g \in {"N2", "Other"} :
        f = [i \in 1..n |-> MkRow(i, NoneCell, g, AmplLow, DefaultArea)]

\* a file of one analysis with the given labels
FileOf(gas) == [i \in 1..Len(gas) |-> MkRow(i, Str(1), gas[i], AmplLow, DefaultArea)]

\* the first file of a batch of several files
FileBatch(f) ==
    \E gas \in {<<"N2", "N2", "CO2", "CO2">>, <<"Other">>, <<"N2", "CO2">>} : f = FileOf(gas)

\* CN.py:177-181: the sorted names of the files that follow the first one;
\* a file's name is its place in the sorted list
LaterLists ==
    UNION {[1..n -> {[rows |-> FileOf(gas), hasAnalysis |-> TRUE, hasGas |-> TRUE] :
                         gas \in {<<"N2", "N2", "CO2", "CO2">>, <<"Other">>}}] : n \in 0..MaxLater}

\* a log file that does not exist yet, and one that exists with its header
\* row and no record of the files of this batch
NoLog == [exists |-> FALSE, header |-> 0, rows |-> <<>>]
OldLog == [exists |-> TRUE, header |-> 1, rows |-> <<>>]

OldLogs == exhaustive_log = OldLog /\ project_log = OldLog
NoLater == filelist = <<>>
AnyLater == filelist \in LaterLists

\* a number CN_calibrate.py has not computed yet
Unset == [n |-> 0, d |-> 0]

\* nothing computed and nothing written yet
NothingCalibrated ==
    /\ ref_mat =
           [id1_set |-> {}, chosen |-> <<>>, qaqc |-> {},
            d15N_residual_std_sq |-> Unset, d13C_residual_std_sq |-> Unset,
            d15N_fit |-> <<Unset, Unset>>, d13C_fit |-> <<Unset, Unset>>,
            d15N_AirN2_residual_std_sq |-> Unset, d13C_VPDB_residual_std_sq |-> Unset]
    /\ ref_mat_globals =
           [key \in {"GA1", "SA", "GA2"} |->
               [purpose |-> "", d15N_residual |-> <<>>, d13C_residual |-> <<>>,
                d15N_AirN2_residual |-> <<>>, d13C_VPDB_residual |-> <<>>]]
    /\ qtycal = [Nfit |-> <<Unset, Unset>>, Cfit |-> <<Unset, Unset>>]
    /\ Nqty = <<>> /\ Cqty = <<>> /\ PercentN = <<>> /\ PercentC = <<>>
    /\ d15N_drift_corr = <<>> /\ d13C_drift_corr = <<>>
    /\ d15N_AirN2 = <<>> /\ d13C_VPDB = <<>>
    /\ cal_exception = [type |-> "None", line |-> 0]
    /\ runs_dict = <<>>
    /\ calibrated_data_files = <<>>
    /\ summary_data_file = <<>>
    /\ report = <<>>

\* CN_calibrate.py is not running
CalIdle ==
    /\ chosen_input = <<>>
    /\ run_names = <<>>
    /\ NothingCalibrated
    /\ unify = FALSE
    /\ log_data = <<>>
    /\ runs_indices = <<>>
    /\ current_run_index = 1
    /\ cal_pc = "idle"
    /\ trust1_currrun_indices = <<>>
    /\ current_data_set = <<>>
    /\ cat_index = <<>>
    /\ non_samples_indices = <<>>
    /\ sample_indices = {}
    /\ blank = [size_Vs |-> Unset, d15N |-> Unset]
    /\ N_sam_AreaAll_blank_corr = <<>>
    /\ d15N_blank_corr = <<>>
    /\ calculation_notes = <<>>

\* no record is on its way through a log file
IOIdle ==
    /\ row_to_write = <<>>
    /\ csvfile = <<>>
    /\ row_read = <<>>
    /\ io_pc = "idle"

\* ------------------------------------------------------------------ state
\* CN.py:177-202: the file list is made, the stores are emptied and the
\* first file is read
Init ==
    /\ \/ hasAnalysis = TRUE /\ hasGas = TRUE /\ FileGrouped(data) /\ OldLogs /\ NoLater
       \/ hasAnalysis = TRUE /\ hasGas = TRUE /\ FileOneAnalysis(data) /\ NoLater
          /\ exhaustive_log \in {NoLog, OldLog} /\ project_log \in {NoLog, OldLog}
       \/ hasAnalysis = TRUE /\ hasGas = TRUE /\ FileUniformAmpl(data) /\ OldLogs /\ NoLater
       \/ hasAnalysis = TRUE /\ hasGas = TRUE /\ FileLonePeak(data) /\ OldLogs /\ NoLater
       \/ hasAnalysis = TRUE /\ hasGas = TRUE /\ FileOneCell(data) /\ OldLogs /\ AnyLater
       \/ hasAnalysis = TRUE /\ hasGas = TRUE /\ FileAreas(data) /\ OldLogs /\ NoLater
       \/ hasAnalysis = TRUE /\ hasGas = FALSE /\ FileNoGas(data) /\ OldLogs /\ AnyLater
       \/ hasAnalysis = TRUE /\ hasGas = TRUE /\ FileBadIds(data) /\ OldLogs /\ AnyLater
       \/ hasAnalysis = FALSE /\ hasGas = TRUE /\ FileNoAnalysis(data) /\ OldLogs /\ AnyLater
       \/ hasAnalysis = TRUE /\ hasGas = TRUE /\ FileBatch(data) /\ AnyLater
          /\ exhaustive_log \in {NoLog, OldLog} /\ project_log \in {NoLog, OldLog}
    /\ IOIdle
    /\ CalIdle
    /\ file = 1
    /\ place = [f \in 1..(1 + Len(filelist)) |-> "rawdata_new"]
    /\ exception = "None"
    /\ pc = "read"
    /\ sample_index_first_row = <<>>
    /\ rows_per_sample = <<>>
    /\ run_type = "unset"
    /\ k = 1
    /\ meta_data = <<>>
    /\ N_wg_data = <<>>
    /\ N_sam_data = <<>>
    /\ C_sam_data = <<>>
    /\ C_wg_data = <<>>
    /\ supp_data = <<>>
    /\ last = [index |-> 0, rows |-> 0, out |-> Fresh]

\* the cells of the Analysis column, and the integers they hold
AnalysisCells == [i \in 1..Len(data) |-> data[i].Analysis]
AnalysisColumn == [i \in 1..Len(data) |-> data[i].Analysis.val]

\* os.rename(rawdata_new/file, ...) raises FileNotFoundError when the file is
\* no longer in rawdata_new
rename_raises(f) == place[f] # "rawdata_new"

\* CN.py:213: the place of the first cell int() does not accept, 0 if none
first_bad(col) ==
    IF \E i \in 1..Len(col) : IntRaises(col[i]) \/ IntValueError(col[i])
    THEN CHOOSE i \in 1..Len(col) :
             /\ IntRaises(col[i]) \/ IntValueError(col[i])
             /\ \A j \in 1..(i - 1) : ~(IntRaises(col[j]) \/ IntValueError(col[j]))
    ELSE 0

\* CN.py:213: data['Analysis'] = [int(index) for index in data['Analysis']]
converted(rows) ==
    [i \in 1..Len(rows) |->
        [rows[i] EXCEPT !.Analysis = [type |-> "int", val |-> int(@)]]]

\* CN.py:204-218: the test for file problems. The `continue` of line 218
\* continues the loop over the cells of the Analysis column, not the loop
\* over the files: with two rows or more the conversion is tried again and
\* the second os.rename finds the file gone; with one row the loop ends and
\* the file, already in the junk folder, is processed with its text id.
TestFile ==
    /\ UNCHANGED <<io_vars, cal_vars>>
    /\ pc = "read"
    /\ \/ /\ ~hasAnalysis
          /\ place' = [place EXCEPT ![file] = "rawdata_junk"]
          /\ pc' = "rejected"
          /\ UNCHANGED <<data, exception>>
       \/ /\ hasAnalysis
          /\ first_bad(AnalysisCells) = 0
          /\ data' = converted(data)
          /\ pc' = "tested"
          /\ UNCHANGED <<place, exception>>
       \/ /\ hasAnalysis
          /\ first_bad(AnalysisCells) # 0
          /\ IntRaises(AnalysisCells[first_bad(AnalysisCells)])
          /\ pc' = "crashed"
          /\ exception' = "TypeError"
          /\ UNCHANGED <<data, place>>
       \/ /\ hasAnalysis
          /\ first_bad(AnalysisCells) # 0
          /\ IntValueError(AnalysisCells[first_bad(AnalysisCells)])
          /\ place' = [place EXCEPT ![file] = "rawdata_junk"]
          /\ \/ /\ Len(data) >= 2
                /\ pc' = "crashed"
                /\ exception' = "FileNotFoundError"
             \/ /\ Len(data) = 1
                /\ pc' = "tested"
                /\ UNCHANGED exception
          /\ UNCHANGED data
    /\ UNCHANGED <<hasGas, hasAnalysis, file, filelist, sample_index_first_row,
                   rows_per_sample, run_type, k, meta_data, N_wg_data, N_sam_data,
                   C_sam_data, C_wg_data, supp_data, last, exhaustive_log,
                   project_log>>

\* CN.py:220-232
GroupAnalyses ==
    /\ UNCHANGED <<io_vars, cal_vars>>
    /\ pc = "tested"
    /\ sample_index_first_row' = first_rows(AnalysisColumn)
    /\ rows_per_sample' = row_counts(AnalysisColumn, first_rows(AnalysisColumn))
    /\ pc' = "grouped"
    /\ UNCHANGED <<data, hasGas, run_type, k, meta_data, N_wg_data, N_sam_data,
                   C_sam_data, C_wg_data, supp_data, last, exhaustive_log,
                   project_log, file, filelist, hasAnalysis, place, exception>>

\* the main loop run for every gas mode
loop_guard_always(rt) == TRUE

\* CN.py:251: the main loop is run only for the gas modes CN, N and C
loop_guard(rt) == rt \in {"CN", "N", "C"}

\* CN.py:234-251
DetectRunType ==
    /\ UNCHANGED <<io_vars, cal_vars>>
    /\ pc = "grouped"
    /\ run_type' = run_type_of(gas_configuration(data, hasGas))
    /\ pc' = IF loop_guard(run_type') THEN "loop" ELSE "unrecognized"
    /\ UNCHANGED <<data, hasGas, sample_index_first_row, rows_per_sample, k,
                   meta_data, N_wg_data, N_sam_data, C_sam_data, C_wg_data,
                   supp_data, last, exhaustive_log, project_log, file, filelist,
                   hasAnalysis, place, exception>>

\* CN.py:253-449: one iteration of the main loop over the analyses. The notes
\* are kept as the list that "; ".join(note) writes out (CN.py:448).
ClassifyAnalysis ==
    /\ UNCHANGED <<io_vars, cal_vars>>
    /\ pc = "loop"
    /\ k <= Len(sample_index_first_row)
    /\ LET index == sample_index_first_row[k]
           rows == rows_per_sample[k]
           out == classify(run_type, index, rows)
       IN  /\ meta_data' = Append(meta_data, data[index + 1].Analysis)
           /\ N_wg_data' = N_wg_data \o out.N_wg
           /\ N_sam_data' = N_sam_data \o out.N_sam
           /\ C_sam_data' = C_sam_data \o out.C_sam
           /\ C_wg_data' = C_wg_data \o out.C_wg
           /\ last' = [index |-> index, rows |-> rows, out |-> out]
           /\ \/ /\ ~out.raised
                 /\ supp_data' = Append(supp_data,
                                        [file |-> file, trust |-> out.trust,
                                         notes |-> out.note])
                 /\ k' = k + 1
                 /\ pc' = "loop"
                 /\ UNCHANGED exception
              \/ /\ out.raised
                 /\ pc' = "crashed"
                 /\ exception' = "TypeError"
                 /\ UNCHANGED <<supp_data, k>>
    /\ UNCHANGED <<data, hasGas, sample_index_first_row, rows_per_sample, run_type,
                   exhaustive_log, project_log, file, filelist, hasAnalysis, place>>

\* the record eval(data_to_write) builds from index ii of every store
log_row(ii) ==
    [meta |-> meta_data[ii], N_wg |-> N_wg_data[ii], N_sam |-> N_sam_data[ii],
     C_sam |-> C_sam_data[ii], C_wg |-> C_wg_data[ii], supp |-> supp_data[ii]]

\* the rows written before eval(data_to_write) raises IndexError: the loop
\* runs over range(len(meta_data['Analysis'])) and stops at the first index
\* that one of the stores does not have
RECURSIVE writable(_)
writable(ii) ==
    IF /\ ii <= Len(meta_data)
       /\ \A store \in {N_wg_data, N_sam_data, C_sam_data, C_wg_data, supp_data} :
              ii <= Len(store)
    THEN writable(ii + 1)
    ELSE ii - 1

\* CN.py:453-464 and CN.py:467-478 on one log file. A file that does not
\* exist is created and the header row raises NameError
\* (CN_analysis_log_headers is not defined); otherwise the rows are appended
write_log(log) ==
    IF ~log.exists
    THEN [log |-> [exists |-> TRUE, header |-> 0, rows |-> <<>>],
          raised |-> "NameError"]
    ELSE [log |-> [log EXCEPT !.rows = @ \o [ii \in 1..writable(1) |-> log_row(ii)]],
          raised |-> IF writable(1) < Len(meta_data) THEN "IndexError" ELSE "None"]

\* CN.py:452-480: the records are written to both logs and the file archived
WriteLogs ==
    /\ UNCHANGED <<io_vars, cal_vars>>
    /\ pc = "loop"
    /\ k > Len(sample_index_first_row)
    /\ exhaustive_log' = write_log(exhaustive_log).log
    /\ \/ /\ write_log(exhaustive_log).raised # "None"
          /\ pc' = "crashed"
          /\ exception' = write_log(exhaustive_log).raised
          /\ UNCHANGED <<project_log, place>>
       \/ /\ write_log(exhaustive_log).raised = "None"
          /\ project_log' = write_log(project_log).log
          /\ \/ /\ write_log(project_log).raised # "None"
                /\ pc' = "crashed"
                /\ exception' = write_log(project_log).raised
                /\ UNCHANGED place
             \/ /\ write_log(project_log).raised = "None"
                /\ rename_raises(file)
                /\ pc' = "crashed"
                /\ exception' = "FileNotFoundError"
                /\ UNCHANGED place
             \/ /\ write_log(project_log).raised = "None"
                /\ ~rename_raises(file)
                /\ place' = [place EXCEPT ![file] = "rawdata_archive"]
                /\ pc' = "archived"
                /\ UNCHANGED exception
    /\ UNCHANGED <<data, hasGas, sample_index_first_row, rows_per_sample, run_type,
                   k, meta_data, N_wg_data, N_sam_data, C_sam_data, C_wg_data,
                   supp_data, last, file, filelist, hasAnalysis>>

\* CN.py:482-484
JunkFile ==
    /\ UNCHANGED <<io_vars, cal_vars>>
    /\ pc = "unrecognized"
    /\ \/ /\ rename_raises(file)
          /\ pc' = "crashed"
          /\ exception' = "FileNotFoundError"
          /\ UNCHANGED place
       \/ /\ ~rename_raises(file)
          /\ place' = [place EXCEPT ![file] = "rawdata_junk"]
          /\ pc' = "junk"
          /\ UNCHANGED exception
    /\ UNCHANGED <<data, hasGas, sample_index_first_row, rows_per_sample, run_type,
                   k, meta_data, N_wg_data, N_sam_data, C_sam_data, C_wg_data,
                   supp_data, last, exhaustive_log, project_log, file, filelist,
                   hasAnalysis>>

\* CN.py:186-202: the loop over the files goes on to the next file: the
\* stores are emptied and the file is read. The groups and the gas mode of
\* the file before stay until they are computed anew.
NextFile ==
    /\ UNCHANGED <<io_vars, cal_vars>>
    /\ pc \in {"rejected", "archived", "junk"}
    /\ filelist # <<>>
    /\ file' = file + 1
    /\ filelist' = Tail(filelist)
    /\ data' = Head(filelist).rows
    /\ hasAnalysis' = Head(filelist).hasAnalysis
    /\ hasGas' = Head(filelist).hasGas
    /\ meta_data' = <<>>
    /\ N_wg_data' = <<>>
    /\ N_sam_data' = <<>>
    /\ C_sam_data' = <<>>
    /\ C_wg_data' = <<>>
    /\ supp_data' = <<>>
    /\ k' = 1
    /\ last' = [index |-> 0, rows |-> 0, out |-> Fresh]
    /\ pc' = "read"
    /\ UNCHANGED <<sample_index_first_row, rows_per_sample, run_type,
                   exhaustive_log, project_log, place, exception>>

Next ==
    \/ TestFile \/ GroupAnalyses \/ DetectRunType \/ ClassifyAnalysis
    \/ WriteLogs \/ JunkFile \/ NextFile

Spec == Init /\ [][Next]_vars

\* ============================================ a record through a log file
\* CN.py writes a record to a log with csv.writer (QUOTE_MINIMAL) and
\* CN_calibrate.py reads the log back with read_file. A text is the sequence
\* of its characters; '1.#IO' stands as one character for that substring.
None == <<"None">>
FieldValues == (UNION {[1..n -> {"a", ",", "\"", "1.#IO"}] : n \in 0..MaxFieldLen}) \cup {None}

\* csv.writer: a quote character inside a quoted field is doubled
RECURSIVE doubled(_)
doubled(t) ==
    IF t = <<>> THEN <<>>
    ELSE (IF Head(t) = "\"" THEN <<"\"", "\"">> ELSE <<Head(t)>>) \o doubled(Tail(t))

\* csv.QUOTE_MINIMAL: only a field that holds the delimiter, the quote
\* character or a line-terminator character is quoted
needs_quotes(t) == \E i \in 1..Len(t) : t[i] \in {",", "\"", "\r", "\n"}

\* csv.writer: None is written as the empty string
csv_field(v) ==
    IF v = None THEN <<>>
    ELSE IF needs_quotes(v) THEN <<"\"">> \o doubled(v) \o <<"\"">>
    ELSE v

RECURSIVE join(_, _)
join(fields, sep) ==
    IF fields = <<>> THEN <<>>
    ELSE IF Len(fields) = 1 THEN fields[1]
    ELSE fields[1] \o sep \o join(Tail(fields), sep)

\* CN.py:464  datawriter.writerow(...): fields joined by ',', ended by '\r\n'
writerow(row) ==
    join([i \in 1..Len(row) |-> csv_field(row[i])], <<",">>) \o <<"\r", "\n">>

\* CN_lib.py:187  open(file, 'r'): '\r\n' is read as '\n'
RECURSIVE universal_newlines(_)
universal_newlines(t) ==
    IF t = <<>> THEN <<>>
    ELSE IF Len(t) >= 2 /\ t[1] = "\r" /\ t[2] = "\n"
    THEN <<"\n">> \o universal_newlines(Tail(Tail(t)))
    ELSE <<Head(t)>> \o universal_newlines(Tail(t))

\* Python str.split(delim)
RECURSIVE split(_, _)
split(t, delim) ==
    IF \E i \in 1..Len(t) : t[i] = delim
    THEN LET i == CHOOSE j \in 1..Len(t) :
                      t[j] = delim /\ \A h \in 1..(j - 1) : t[h] # delim
         IN  <<SubSeq(t, 1, i - 1)>> \o split(SubSeq(t, i + 1, Len(t)), delim)
    ELSE <<t>>

\* CN_lib.py:210-212: unwanted substrings removed, '' becomes None
read_cell(v) ==
    LET w == SelectSeq(v, LAMBDA c : c \notin {"\n", "1.#IO", "1.#INF000"})
    IN  IF w = <<>> THEN None ELSE w

\* CN_lib.py:203-213 on one line: zip(headers, row) drops the pieces beyond
\* the last header
read_file(line, nheaders) ==
    LET row == split(universal_newlines(line), ",")
        n == IF Len(row) < nheaders THEN Len(row) ELSE nheaders
    IN  [i \in 1..n |-> read_cell(row[i])]

\* CN.py is not running
CNIdle ==
    /\ data = <<>> /\ hasGas = FALSE /\ hasAnalysis = FALSE
    /\ pc = "idle" /\ exception = "None"
    /\ sample_index_first_row = <<>> /\ rows_per_sample = <<>>
    /\ run_type = "unset" /\ k = 1
    /\ meta_data = <<>> /\ N_wg_data = <<>> /\ N_sam_data = <<>>
    /\ C_sam_data = <<>> /\ C_wg_data = <<>> /\ supp_data = <<>>
    /\ last = [index |-> 0, rows |-> 0, out |-> Fresh]
    /\ exhaustive_log = NoLog /\ project_log = NoLog
    /\ file = 0 /\ filelist = <<>> /\ place = <<>>

\* a record of NFields fields is about to be written
InitLog ==
    /\ CNIdle
    /\ CalIdle
    /\ row_to_write \in [1..NFields -> FieldValues]
    /\ csvfile = <<>>
    /\ row_read = <<>>
    /\ io_pc = "record"

\* CN.py:461-464: the record is written to the log
WriteRow ==
    /\ io_pc = "record"
    /\ csvfile' = writerow(row_to_write)
    /\ io_pc' = "written"
    /\ UNCHANGED <<row_to_write, row_read>>
    /\ UNCHANGED <<cn_vars, cal_vars>>

\* CN_calibrate.py:154: the log is read back (its header row names NFields
\* columns)
ReadLog ==
    /\ io_pc = "written"
    /\ row_read' = read_file(csvfile, NFields)
    /\ io_pc' = "read"
    /\ UNCHANGED <<row_to_write, csvfile>>
    /\ UNCHANGED <<cn_vars, cal_vars>>

NextLog == WriteRow \/ ReadLog

SpecLog == InitLog /\ [][NextLog]_vars

\* ========================================================= CN_calibrate.py
\* The project analysis log is read, its records are split into runs, and
\* every run is calibrated: the trusted records of the run are kept, the
\* records of every reference / control category are located, and the
\* nitrogen blank correction is made.

\* ------------------------------------------------------------------ floats
\* A float is kept as the exact fraction n/d in lowest terms with d > 0;
\* nan is 0/0, inf is 1/0 and -inf is -1/0 (numpy warns and goes on).
NaN == [n |-> 0, d |-> 0]
Num(x) == [n |-> x, d |-> 1]
isnan(x) == x.n = 0 /\ x.d = 0
isinf(x) == x.n # 0 /\ x.d = 0

RECURSIVE GCD(_, _)
GCD(a, b) == IF b = 0 THEN a ELSE GCD(b, a % b)

Fraction(n, d) ==
    IF d = 0 THEN [n |-> IF n > 0 THEN 1 ELSE IF n < 0 THEN 0 - 1 ELSE 0, d |-> 0]
    ELSE LET g == GCD(IF n < 0 THEN 0 - n ELSE n, IF d < 0 THEN 0 - d ELSE d)
         IN  IF d < 0 THEN [n |-> (0 - n) \div g, d |-> (0 - d) \div g]
             ELSE [n |-> n \div g, d |-> d \div g]

fadd(x, y) ==
    IF isnan(x) \/ isnan(y) THEN NaN
    ELSE IF isinf(x) /\ isinf(y) THEN (IF x.n = y.n THEN x ELSE NaN)
    ELSE IF isinf(x) THEN x
    ELSE IF isinf(y) THEN y
    ELSE Fraction(x.n * y.d + y.n * x.d, x.d * y.d)
fsub(x, y) == fadd(x, [n |-> 0 - y.n, d |-> y.d])
fmul(x, y) == IF isnan(x) \/ isnan(y) THEN NaN ELSE Fraction(x.n * y.n, x.d * y.d)
fdiv(x, y) == IF isnan(x) \/ isnan(y) THEN NaN ELSE Fraction(x.n * y.d, x.d * y.n)

\* CN_calibrate.py:189  np.asarray(..., dtype=float): None becomes nan
float(cell) == IF cell.type = "NoneType" THEN NaN ELSE Num(cell.val)

RECURSIVE fsum(_)
fsum(seq) == IF seq = <<>> THEN Num(0) ELSE fadd(Head(seq), fsum(Tail(seq)))

\* the mean taken over all values, nan included
nanmean_ofAll(seq) == fdiv(fsum(seq), Num(Len(seq)))

\* np.nanmean: the mean of the values that are not nan
nanmean(seq) ==
    LET kept == SelectSeq(seq, LAMBDA x : ~isnan(x))
    IN  fdiv(fsum(kept), Num(Len(kept)))

isfinite(x) == x.d > 0

\* np.mean: nan as soon as one value is nan; nan (with a warning) of nothing
mean(seq) == fdiv(fsum(seq), Num(Len(seq)))

\* the square of np.std (the population standard deviation, which is the
\* square root of it and is nan exactly when it is nan): the mean of the
\* squared distances from np.mean
std_sq(seq) ==
    LET m == mean(seq)
    IN  mean([i \in 1..Len(seq) |-> fmul(fsub(seq[i], m), fsub(seq[i], m))])

\* np.nan_to_num: nan becomes 0.0, inf and -inf the largest finite float
\* (1.7976931348623157e+308) and its negative, written 1/-1 and -1/-1
nan_to_num(x) ==
    IF isnan(x) THEN Num(0)
    ELSE IF isinf(x) THEN [n |-> x.n, d |-> 0 - 1]
    ELSE x

\* round(x, ndigits) of a float: to the nearest multiple of 10^-ndigits, a
\* tie to the even one; nan and the infinities are kept
round(x, ndigits) ==
    IF ~isfinite(x) THEN x
    ELSE LET scaled == x.n * 10^ndigits
             floor == scaled \div x.d
             twice == 2 * (scaled - floor * x.d)
             nearest == IF twice > x.d THEN floor + 1
                        ELSE IF twice < x.d THEN floor
                        ELSE IF floor % 2 = 0 THEN floor
                        ELSE floor + 1
         IN  Fraction(nearest, 10^ndigits)

\* what np.polyfit(x, y, 1) can do, the coefficients being <<slope, intercept>>:
\*   no point: TypeError("expected non-empty vector for x");
\*   a nan or inf among the values: numpy.linalg.lstsq either raises
\*     LinAlgError("SVD did not converge") or returns nan, as the LAPACK of
\*     the build does;
\*   one value of x only: the matrix has rank 1, a RankWarning is issued and
\*     the solution of least norm of the scaled problem is returned (for
\*     x = 0 the scaling divides 0 by 0 and puts nan into the matrix);
\*   else the least-squares line.
polyfit(x, y) ==
    LET n == Num(Len(x))
        Sx == fsum(x)
        Sy == fsum(y)
        Sxx == fsum([i \in 1..Len(x) |-> fmul(x[i], x[i])])
        Sxy == fsum([i \in 1..Len(x) |-> fmul(x[i], y[i])])
        slope == fdiv(fsub(fmul(n, Sxy), fmul(Sx, Sy)), fsub(fmul(n, Sxx), fmul(Sx, Sx)))
        least_squares == <<slope, fdiv(fsub(Sy, fmul(slope, Sx)), n)>>
        failed == {[raised |-> "LinAlgError", coef |-> <<NaN, NaN>>],
                   [raised |-> "None", coef |-> <<NaN, NaN>>]}
    IN  IF Len(x) = 0
        THEN {[raised |-> "TypeError", coef |-> <<NaN, NaN>>]}
        ELSE IF \E i \in 1..Len(x) : ~isfinite(x[i]) \/ ~isfinite(y[i])
        THEN failed
        ELSE IF \A i \in 1..Len(x) : x[i] = x[1]
        THEN IF x[1].n = 0 THEN failed
             ELSE {[raised |-> "None",
                    coef |-> <<fdiv(mean(y), fmul(Num(2), x[1])), fdiv(mean(y), Num(2))>>]}
        ELSE {[raised |-> "None", coef |-> least_squares]}

\* ------------------------------------------------------------- categories
\* CN_calibrate.py:139-149: the reference materials of the standards file
\* and the corrective measurements of the configuration, with their names
ref_mat_keys == <<"GA1", "SA", "GA2">>
non_samples_list == ref_mat_keys \o <<"blank", "qtycal">>

\* the accepted values of the reference materials (standards file) and of
\* the quantity-calibration material (configuration)
accepted(category) ==
    CASE category = "GA1" -> [d15N |-> Num(1), d13C |-> Num(0 - 11),
                              fractionN |-> Fraction(1, 10), fractionC |-> Fraction(2, 5)]
      [] category = "SA" -> [d15N |-> Num(9), d13C |-> Num(0 - 31),
                             fractionN |-> Fraction(1, 5), fractionC |-> Fraction(2, 5)]
      [] category = "GA2" -> [d15N |-> Num(5), d13C |-> Num(0 - 21),
                              fractionN |-> Fraction(1, 10), fractionC |-> Fraction(2, 5)]
      [] category = "qtycal" -> [fractionN |-> Fraction(1, 10), fractionC |-> Fraction(2, 5)]

\* eval(name) finds a dict: the name is a key of the standards file or of
\* the corrective measurements
is_global(name) == \E c \in 1..Len(non_samples_list) : non_samples_list[c] = name

names(category) ==
    CASE category = "GA1" -> {"GA1"}
      [] category = "SA" -> {"SA"}
      [] category = "GA2" -> {"GA2"}
      [] category = "blank" -> {"blank", "void"}
      [] category = "qtycal" -> {"qtycal_GA1", "qtycal_ga1", "qtycal.GA1"}

\* the identifier compared as it is written
lower_asWritten(str) == str

\* Python str.lower() on the strings that occur
lower(str) ==
    CASE str = "GA1" -> "ga1"
      [] str = "SA" -> "sa"
      [] str = "GA2" -> "ga2"
      [] str = "Blank" -> "blank"
      [] str = "VOID" -> "void"
      [] str = "qtycal_GA1" -> "qtycal_ga1"
      [] str = "qtycal.GA1" -> "qtycal.ga1"
      [] OTHER -> str

\* the index of the run before is kept and the places of this run added
category_index_kept(category, Identifier1) ==
    (IF category \in DOMAIN cat_index
     THEN SelectSeq(cat_index[category], LAMBDA j : j < Len(Identifier1))
     ELSE <<>>)
    \o SelectSeq(Enumerate(Len(Identifier1)),
                 LAMBDA j : lower(Identifier1[j + 1]) \in {lower(name) : name \in names(category)})

\* CN_calibrate.py:202: the places of the identifiers that are a name of the
\* category, whatever the case of the letters
category_index(category, Identifier1) ==
    SelectSeq(Enumerate(Len(Identifier1)),
              LAMBDA j : lower(Identifier1[j + 1]) \in {lower(name) : name \in names(category)})

\* list.extend over the categories in the order of non_samples_list
RECURSIVE extend_all(_, _)
extend_all(categories, index) ==
    IF categories = <<>> THEN <<>>
    ELSE index[Head(categories)] \o extend_all(Tail(categories), index)

\* ------------------------------------------------------------------- runs
\* CN_calibrate.py:180-181

\* np.intersect1d: the sorted common values
intersect1d(a, b) ==
    sorted(SelectSeq(a, LAMBDA x : \E j \in 1..Len(b) : b[j] = x))

\* CN_calibrate.py:162-169: one run of all records with --unify, else one run
\* for every raw file, in the order list(set(...)) happens to give
runs(d, unified) ==
    IF unified THEN {<<Enumerate(Len(d))>>}
    ELSE LET files == {d[i].file : i \in 1..Len(d)}
             orders == {o \in [1..Cardinality(files) -> files] :
                            \A a, b \in 1..Cardinality(files) : a # b => o[a] # o[b]}
         IN  {[r \in 1..Cardinality(files) |->
                   SelectSeq(Enumerate(Len(d)), LAMBDA i : d[i + 1].file = o[r])] :
                  o \in orders}

\* CN_calibrate.py:243
blank_corr_area_none(area, size_Vs) == area

blank_corr_area(area, size_Vs) == fsub(area, size_Vs)

\* CN_calibrate.py:244
blank_corr_delta(delta, area, d15N, size_Vs) ==
    fdiv(fsub(fmul(delta, area), fmul(d15N, size_Vs)), fsub(area, size_Vs))

\* ---------------------------------------------------------- the log read
Record(f, t, id, date, analysis, amount, N_area, d15N, C_area, d13C) ==
    [file |-> f, trust |-> Str(t), Identifier1 |-> id, Date |-> date,
     Analysis |-> analysis, Amount |-> amount,
     N_sam_AreaAll |-> N_area, N_sam_d15N14N |-> d15N,
     C_sam_AreaAll |-> C_area, C_sam_d13C12C |-> d13C]

CalRecord(f, t, id, area, delta) ==
    Record(f, t, id, "01/02/24", Str(1), Str(10), area, delta, Str(300), Str(0 - 10))

\* the records numbered as analyses 1, 2, ...
Numbered(recs) == [i \in 1..Len(recs) |-> [recs[i] EXCEPT !.Analysis = Str(i)]]

\* a log of records of two raw files, trusted or not, of any identifier
LogMixed(d) ==
    \E n \in 1..MaxCalRecords :
        \E fs \in [1..n -> {1, 2}], ts \in [1..n -> {0, 1}], ids \in [1..n -> {"Blank", "ga1", "qtycal_GA1", "s1"}] :
            d = Numbered([i \in 1..n |-> CalRecord(fs[i], ts[i], ids[i], Str(100), Str(0 - 5))])

\* a log of one run of trusted blanks and samples, any of their peak areas
\* and d15N values missing
LogBlanks(d) ==
    \E n \in 1..MaxBlankRecords :
        \E recs \in [1..n ->
                         {CalRecord(1, 1, "Blank", a, dl) :
                             a \in {NoneCell, Str(10), Str(12)},
                             dl \in {NoneCell, Str(0 - 2), Str(0 - 4)}}
                         \cup {CalRecord(1, 1, "s1", a, dl) :
                                  a \in {NoneCell, Str(100), Str(11)},
                                  dl \in {NoneCell, Str(0 - 5)}}] :
            d = Numbered(recs)

\* the records a complete run of raw file f has, its analyses numbered from
\* first + 1 on: two replicates of GA1 around one of SA, two quantity
\* standards of 10 mg and 20 mg, two replicates of GA2, a sample and a blank
RunTemplate(f, date, first) ==
    <<Record(f, 1, "GA1", date, Str(first + 1), Str(10), Str(150), Str(2), Str(300), Str(0 - 10)),
      Record(f, 1, "SA", date, Str(first + 2), Str(10), Str(150), Str(6), Str(300), Str(0 - 20)),
      Record(f, 1, "GA1", date, Str(first + 3), Str(10), Str(150), Str(4), Str(300), Str(0 - 10)),
      Record(f, 1, "qtycal_GA1", date, Str(first + 4), Str(10), Str(100), Str(0), Str(400), Str(0 - 10)),
      Record(f, 1, "qtycal_GA1", date, Str(first + 5), Str(20), Str(200), Str(0), Str(800), Str(0 - 10)),
      Record(f, 1, "GA2", date, Str(first + 6), Str(10), Str(150), Str(4), Str(300), Str(0 - 15)),
      Record(f, 1, "GA2", date, Str(first + 7), Str(10), Str(150), Str(4), Str(300), Str(0 - 15)),
      Record(f, 1, "s1", date, Str(first + 8), Str(10), Str(150), Str(3), Str(300), Str(0 - 12)),
      Record(f, 1, "Blank", date, Str(first + 9), NoneCell, Str(50), Str(0 - 2), NoneCell, NoneCell)>>

\* dateutil.parser.parse(date).strftime("%Y%m%d")
strftime_Ymd(date) ==
    CASE date = "01/02/24" -> "20240102"
      [] date = "01/03/24" -> "20240103"

\* the records of the template that are present, one cell changed
RunOf(template, present, defect) ==
    LET changed == [i \in 1..Len(template) |->
                        IF i = defect.place
                        THEN [template[i] EXCEPT ![defect.column] = defect.cell]
                        ELSE template[i]]
        places == SelectSeq([i \in 1..Len(template) |-> i], LAMBDA i : present[i])
    IN  [j \in 1..Len(places) |-> changed[places[j]]]

\* a log of one raw file that has any of the records of a complete run
LogOneRun(d) ==
    \E present \in [1..9 -> BOOLEAN],
       defect \in {[place |-> 0, column |-> "trust", cell |-> Str(1)],
                   [place |-> 3, column |-> "N_sam_d15N14N", cell |-> NoneCell],
                   [place |-> 5, column |-> "N_sam_AreaAll", cell |-> NoneCell],
                   [place |-> 7, column |-> "N_sam_d15N14N", cell |-> NoneCell],
                   [place |-> 8, column |-> "Amount", cell |-> Str(0)],
                   [place |-> 8, column |-> "Analysis", cell |-> NoneCell],
                   [place |-> 6, column |-> "trust", cell |-> Str(0)]} :
        /\ \E i \in 1..9 : present[i]
        /\ IF defect.place = 0 THEN TRUE ELSE present[defect.place]
        /\ d = RunOf(RunTemplate(1, "01/02/24", 0), present, defect)

\* the sequences value[k] of the keys k, one after the other
RECURSIVE flatten(_, _)
flatten(categories, value) ==
    IF categories = <<>> THEN <<>>
    ELSE value[Head(categories)] \o flatten(Tail(categories), value)

\* a log of up to MaxRuns raw files, begun on the same day or on another
LogManyRuns(d) ==
    \E n \in 2..MaxRuns :
        \E kinds \in [1..n -> {[i \in 1..9 |-> i \in {1, 2, 4, 5, 8}],
                                [i \in 1..9 |-> i \in {1, 2, 4, 5, 8, 9}],
                                [i \in 1..9 |-> i = 8]}],
           dates \in [1..n -> {"01/02/24", "01/03/24"}] :
            d = flatten([r \in 1..n |-> r],
                        [r \in 1..n |->
                            RunOf(RunTemplate(r, dates[r], 10 * (r - 1)), kinds[r],
                                  [place |-> 0, column |-> "trust", cell |-> Str(1)])])

\* CN_calibrate.py:152-169: the log is read and split into runs
InitCal ==
    /\ CNIdle
    /\ IOIdle
    /\ \/ LogMixed(log_data) /\ unify \in BOOLEAN /\ chosen_input = <<"GA1", "SA">>
       \/ LogBlanks(log_data) /\ unify = FALSE /\ chosen_input = <<"GA1", "SA">>
       \/ LogOneRun(log_data) /\ unify = FALSE /\ chosen_input \in {<<"GA1", "SA">>, <<"GA1">>, <<>>}
       \/ LogManyRuns(log_data) /\ unify \in BOOLEAN /\ chosen_input = <<"GA1", "SA">>
    /\ runs_indices \in runs(log_data, unify)
    /\ run_names = [r \in 1..Len(runs_indices) |->
                         strftime_Ymd(log_data[runs_indices[r][1] + 1].Date)]
    /\ NothingCalibrated
    /\ current_run_index = 1
    /\ cal_pc = "run"
    /\ trust1_currrun_indices = <<>>
    /\ current_data_set = <<>>
    /\ cat_index = <<>>
    /\ non_samples_indices = <<>>
    /\ sample_indices = {}
    /\ blank = [size_Vs |-> Unset, d15N |-> Unset]
    /\ N_sam_AreaAll_blank_corr = <<>>
    /\ d15N_blank_corr = <<>>
    /\ calculation_notes = <<>>

\* CN_calibrate.py:173-194: the trusted records of the run are kept
SelectRun ==
    /\ cal_pc = "run"
    /\ current_run_index <= Len(runs_indices)
    /\ trust1_currrun_indices' =
           intersect1d(runs_indices[current_run_index],
                       SelectSeq(Enumerate(Len(log_data)),
                                 LAMBDA i : int(log_data[i + 1].trust) = 1))
    /\ current_data_set' =
           [j \in 1..Len(trust1_currrun_indices') |->
               log_data[trust1_currrun_indices'[j] + 1]]
    /\ calculation_notes' = <<>>
    /\ cal_pc' = "selected"
    /\ UNCHANGED <<unify, log_data, runs_indices, current_run_index, cat_index,
                   non_samples_indices, sample_indices, blank,
                   N_sam_AreaAll_blank_corr, d15N_blank_corr>>
    /\ UNCHANGED <<cn_vars, io_vars, fit_vars, out_vars>>

\* the arrays CN_calibrate.py:188-192 makes of the columns
Identifier1 == [j \in 1..Len(current_data_set) |-> current_data_set[j].Identifier1]
N_sam_AreaAll == [j \in 1..Len(current_data_set) |-> float(current_data_set[j].N_sam_AreaAll)]
N_sam_d15N14N == [j \in 1..Len(current_data_set) |-> float(current_data_set[j].N_sam_d15N14N)]

\* np.setdiff1d / set difference of the names of a sequence and a set
RECURSIVE set_of(_)
set_of(seq) == IF seq = <<>> THEN {} ELSE {Head(seq)} \cup set_of(Tail(seq))

\* CN_calibrate.py:197-226
AssignIndices ==
    /\ cal_pc = "selected"
    /\ LET indices == extend_all(ref_mat_keys,
                                 [key \in set_of(ref_mat_keys) |->
                                     category_index(key, Identifier1)])
           id1_set == {Identifier1[indices[i] + 1] : i \in 1..Len(indices)}
       IN  ref_mat' = [ref_mat EXCEPT !.id1_set = id1_set,
                                      !.chosen = chosen_input,
                                      !.qaqc = id1_set \ set_of(chosen_input)]
    /\ cat_index' = [category \in {non_samples_list[c] : c \in 1..Len(non_samples_list)} |->
                         category_index(category, Identifier1)]
    /\ non_samples_indices' = extend_all(non_samples_list, cat_index')
    /\ sample_indices' =
           {j \in 0..(Len(current_data_set) - 1) :
               \A i \in 1..Len(non_samples_indices') : non_samples_indices'[i] # j}
    /\ cal_pc' = "indexed"
    /\ UNCHANGED <<unify, log_data, runs_indices, current_run_index,
                   trust1_currrun_indices, current_data_set, blank,
                   N_sam_AreaAll_blank_corr, d15N_blank_corr, calculation_notes>>
    /\ UNCHANGED <<chosen_input, run_names, ref_mat_globals, qtycal,
                   Nqty, Cqty, PercentN, PercentC, d15N_drift_corr, d13C_drift_corr,
                   d15N_AirN2, d13C_VPDB, cal_exception>>
    /\ UNCHANGED <<cn_vars, io_vars, out_vars>>

\* array[index]: the values at the (0-based) places of index
take(array, index) == [i \in 1..Len(index) |-> array[index[i] + 1]]

\* CN_calibrate.py:234-241
blank_size_Vs == nanmean(take(N_sam_AreaAll, cat_index["blank"]))
blank_d15N == nanmean(take(N_sam_d15N14N, cat_index["blank"]))

\* CN_calibrate.py:230-253
BlankCorrection ==
    /\ cal_pc = "indexed"
    /\ \/ /\ cat_index["blank"] # <<>>
          /\ blank' = [size_Vs |-> blank_size_Vs, d15N |-> blank_d15N]
          /\ \/ /\ ~isnan(blank_size_Vs) /\ ~isnan(blank_d15N)
                /\ N_sam_AreaAll_blank_corr' =
                       [j \in 1..Len(N_sam_AreaAll) |->
                           blank_corr_area(N_sam_AreaAll[j], blank_size_Vs)]
                /\ d15N_blank_corr' =
                       [j \in 1..Len(N_sam_AreaAll) |->
                           blank_corr_delta(N_sam_d15N14N[j], N_sam_AreaAll[j],
                                            blank_d15N, blank_size_Vs)]
                /\ calculation_notes' =
                       Append(calculation_notes, "nitrogen blank correction applied")
             \/ /\ isnan(blank_size_Vs) \/ isnan(blank_d15N)
                /\ N_sam_AreaAll_blank_corr' = N_sam_AreaAll
                /\ d15N_blank_corr' = N_sam_d15N14N
                /\ calculation_notes' =
                       Append(calculation_notes, "nitrogen blank correction NOT applied")
       \/ /\ cat_index["blank"] = <<>>
          /\ N_sam_AreaAll_blank_corr' = N_sam_AreaAll
          /\ d15N_blank_corr' = N_sam_d15N14N
          /\ calculation_notes' =
                 Append(calculation_notes, "nitrogen blank correction NOT applied")
          /\ UNCHANGED blank
    /\ cal_pc' = "blank_corrected"
    /\ UNCHANGED <<unify, log_data, runs_indices, current_run_index,
                   trust1_currrun_indices, current_data_set, cat_index,
                   non_samples_indices, sample_indices>>
    /\ UNCHANGED <<cn_vars, io_vars, fit_vars, out_vars>>

\* the other arrays CN_calibrate.py:188-192 makes of the columns
Date == [j \in 1..Len(current_data_set) |-> current_data_set[j].Date]
Analysis == [j \in 1..Len(current_data_set) |-> float(current_data_set[j].Analysis)]
Amount == [j \in 1..Len(current_data_set) |-> float(current_data_set[j].Amount)]
C_sam_AreaAll == [j \in 1..Len(current_data_set) |-> float(current_data_set[j].C_sam_AreaAll)]
C_sam_d13C12C == [j \in 1..Len(current_data_set) |-> float(current_data_set[j].C_sam_d13C12C)]

\* array * number, number * array + number
scaled(array, factor) == [j \in 1..Len(array) |-> fmul(array[j], factor)]
line(fit, array) == [j \in 1..Len(array) |-> fadd(fmul(fit[1], array[j]), fit[2])]
minus(a, b) == [j \in 1..Len(a) |-> fsub(a[j], b[j])]

\* the fit read the wrong way round
quantity_swapped(area, fit) == fdiv(fsub(area, fit[1]), fit[2])

\* CN_calibrate.py:269-270: (area - fit[1]) / fit[0], the fit being
\* <<slope, intercept>>
quantity(area, fit) == fdiv(fsub(area, fit[2]), fit[1])

\* CN_calibrate.py:273-274
percent(qty, amount) == nan_to_num(fmul(fdiv(qty, amount), Num(100)))

\* an exception nothing catches ends the program; the traceback names the line
raise(exc, lineno) ==
    /\ cal_pc' = "crashed"
    /\ cal_exception' = [type |-> exc, line |-> lineno]

\* CN_calibrate.py:257-276: there is no carbon blank correction
\* (C_sam_AreaAll_blank_corr = C_sam_AreaAll, d13C_blank_corr = C_sam_d13C12C)
QuantityCalibration ==
    /\ cal_pc = "blank_corrected"
    /\ LET index == cat_index["qtycal"]
           known_N == scaled(take(Amount, index), accepted("qtycal").fractionN)
           known_C == scaled(take(Amount, index), accepted("qtycal").fractionC)
       IN  \E Nfit \in polyfit(known_N, take(N_sam_AreaAll_blank_corr, index)),
              Cfit \in polyfit(known_C, take(C_sam_AreaAll, index)) :
               \/ /\ Nfit.raised # "None"
                  /\ raise(Nfit.raised, 264)
                  /\ UNCHANGED <<qtycal, Nqty, Cqty, PercentN, PercentC, calculation_notes>>
               \/ /\ Nfit.raised = "None" /\ Cfit.raised # "None"
                  /\ raise(Cfit.raised, 267)
                  /\ qtycal' = [qtycal EXCEPT !.Nfit = Nfit.coef]
                  /\ UNCHANGED <<Nqty, Cqty, PercentN, PercentC, calculation_notes>>
               \/ /\ Nfit.raised = "None" /\ Cfit.raised = "None"
                  /\ qtycal' = [Nfit |-> Nfit.coef, Cfit |-> Cfit.coef]
                  /\ Nqty' = [j \in 1..Len(Amount) |->
                                 quantity(N_sam_AreaAll_blank_corr[j], Nfit.coef)]
                  /\ Cqty' = [j \in 1..Len(Amount) |->
                                 quantity(C_sam_AreaAll[j], Cfit.coef)]
                  /\ PercentN' = [j \in 1..Len(Amount) |-> percent(Nqty'[j], Amount[j])]
                  /\ PercentC' = [j \in 1..Len(Amount) |-> percent(Cqty'[j], Amount[j])]
                  /\ calculation_notes' = Append(calculation_notes,
                         "nitrogen and carbon quantities calculated from peak area using quantity calibration standards (qtycal) as knowns")
                  /\ cal_pc' = "quantified"
                  /\ UNCHANGED cal_exception
    /\ UNCHANGED <<unify, log_data, runs_indices, current_run_index,
                   trust1_currrun_indices, current_data_set, cat_index,
                   non_samples_indices, sample_indices, blank,
                   N_sam_AreaAll_blank_corr, d15N_blank_corr>>
    /\ UNCHANGED <<chosen_input, run_names, ref_mat, ref_mat_globals,
                   d15N_drift_corr, d13C_drift_corr, d15N_AirN2, d13C_VPDB>>
    /\ UNCHANGED <<cn_vars, io_vars, out_vars>>

\* array[index] - np.nanmean(array[index])
residual(array, index) ==
    LET values == take(array, index)
    IN  [i \in 1..Len(values) |-> fsub(values[i], nanmean(values))]

\* CN_calibrate.py:282-309: the purposes, the good data index (every record)
\* and the residuals of the chosen reference materials about their means.
\* eval() of a name that is no dict of the script raises NameError. (The
\* quantity residuals of lines 289-293 are read by the captions of the
\* --verbose figures only.)
CalibrationSetup ==
    /\ cal_pc = "quantified"
    /\ \/ /\ \E name \in set_of(ref_mat.chosen) \cup ref_mat.qaqc : ~is_global(name)
          /\ raise("NameError",
                   IF \E name \in set_of(ref_mat.chosen) : ~is_global(name) THEN 283 ELSE 285)
          /\ UNCHANGED <<ref_mat, ref_mat_globals>>
       \/ /\ \A name \in set_of(ref_mat.chosen) \cup ref_mat.qaqc : is_global(name)
          /\ LET chosen == set_of(ref_mat.chosen)
                 d15N_residual == [i \in chosen |-> residual(N_sam_d15N14N, cat_index[i])]
                 d13C_residual == [i \in chosen |-> residual(C_sam_d13C12C, cat_index[i])]
             IN  /\ ref_mat_globals' =
                        [key \in DOMAIN ref_mat_globals |->
                            IF key \in chosen
                            THEN [ref_mat_globals[key] EXCEPT
                                     !.purpose = "d15N calibration; d13C calibration",
                                     !.d15N_residual = d15N_residual[key],
                                     !.d13C_residual = d13C_residual[key]]
                            ELSE IF key \in ref_mat.qaqc
                            THEN [ref_mat_globals[key] EXCEPT
                                     !.purpose = "d15N quality control; d13C quality control"]
                            ELSE ref_mat_globals[key]]
                 /\ ref_mat' = [ref_mat EXCEPT
                        !.d15N_residual_std_sq = std_sq(flatten(ref_mat.chosen, d15N_residual)),
                        !.d13C_residual_std_sq = std_sq(flatten(ref_mat.chosen, d13C_residual))]
          /\ cal_pc' = "set_up"
          /\ UNCHANGED cal_exception
    /\ UNCHANGED <<unify, log_data, runs_indices, current_run_index,
                   trust1_currrun_indices, current_data_set, cat_index,
                   non_samples_indices, sample_indices, blank,
                   N_sam_AreaAll_blank_corr, d15N_blank_corr, calculation_notes>>
    /\ UNCHANGED <<chosen_input, run_names, qtycal, Nqty, Cqty, PercentN, PercentC,
                   d15N_drift_corr, d13C_drift_corr, d15N_AirN2, d13C_VPDB>>
    /\ UNCHANGED <<cn_vars, io_vars, out_vars>>

\* the values of every chosen reference material, one material after the other
chosen_values(array) ==
    flatten(ref_mat.chosen, [i \in set_of(ref_mat.chosen) |-> take(array, cat_index[i])])

\* CN_calibrate.py:312-325: a line through the residuals of the chosen
\* reference materials against the analysis number, taken off every record
DriftCorrection ==
    /\ cal_pc = "set_up"
    /\ LET chosen == set_of(ref_mat.chosen)
           x == chosen_values(Analysis)
           d15N_residual == flatten(ref_mat.chosen, [i \in chosen |-> ref_mat_globals[i].d15N_residual])
           d13C_residual == flatten(ref_mat.chosen, [i \in chosen |-> ref_mat_globals[i].d13C_residual])
       IN  \E Ndrift_fit \in polyfit(x, d15N_residual), Cdrift_fit \in polyfit(x, d13C_residual) :
               \/ /\ Ndrift_fit.raised # "None"
                  /\ raise(Ndrift_fit.raised, 313)
                  /\ UNCHANGED <<d15N_drift_corr, d13C_drift_corr, calculation_notes>>
               \/ /\ Ndrift_fit.raised = "None" /\ Cdrift_fit.raised # "None"
                  /\ raise(Cdrift_fit.raised, 319)
                  /\ d15N_drift_corr' = minus(d15N_blank_corr, line(Ndrift_fit.coef, Analysis))
                  /\ UNCHANGED <<d13C_drift_corr, calculation_notes>>
               \/ /\ Ndrift_fit.raised = "None" /\ Cdrift_fit.raised = "None"
                  /\ d15N_drift_corr' = minus(d15N_blank_corr, line(Ndrift_fit.coef, Analysis))
                  /\ d13C_drift_corr' = minus(C_sam_d13C12C, line(Cdrift_fit.coef, Analysis))
                  /\ calculation_notes' = Append(calculation_notes,
                         "d15N and d13C were corrected for drift")
                  /\ cal_pc' = "drift_corrected"
                  /\ UNCHANGED cal_exception
    /\ UNCHANGED <<unify, log_data, runs_indices, current_run_index,
                   trust1_currrun_indices, current_data_set, cat_index,
                   non_samples_indices, sample_indices, blank,
                   N_sam_AreaAll_blank_corr, d15N_blank_corr>>
    /\ UNCHANGED <<chosen_input, run_names, ref_mat, ref_mat_globals, qtycal,
                   Nqty, Cqty, PercentN, PercentC, d15N_AirN2, d13C_VPDB>>
    /\ UNCHANGED <<cn_vars, io_vars, out_vars>>

\* the mean of the measurements of each chosen reference material
measured(array) ==
    [i \in 1..Len(ref_mat.chosen) |-> nanmean(take(array, cat_index[ref_mat.chosen[i]]))]

\* CN_calibrate.py:329-341: a line through the accepted values of the chosen
\* reference materials against the means of their measurements, carbon first
Normalization ==
    /\ cal_pc = "drift_corrected"
    /\ LET d13Cacc == [i \in 1..Len(ref_mat.chosen) |-> accepted(ref_mat.chosen[i]).d13C]
           d15Nacc == [i \in 1..Len(ref_mat.chosen) |-> accepted(ref_mat.chosen[i]).d15N]
       IN  \E d13C_fit \in polyfit(measured(d13C_drift_corr), d13Cacc),
              d15N_fit \in polyfit(measured(d15N_drift_corr), d15Nacc) :
               \/ /\ d13C_fit.raised # "None"
                  /\ raise(d13C_fit.raised, 333)
                  /\ UNCHANGED <<ref_mat, d15N_AirN2, d13C_VPDB, calculation_notes>>
               \/ /\ d13C_fit.raised = "None" /\ d15N_fit.raised # "None"
                  /\ raise(d15N_fit.raised, 338)
                  /\ ref_mat' = [ref_mat EXCEPT !.d13C_fit = d13C_fit.coef]
                  /\ d13C_VPDB' = line(d13C_fit.coef, d13C_drift_corr)
                  /\ UNCHANGED <<d15N_AirN2, calculation_notes>>
               \/ /\ d13C_fit.raised = "None" /\ d15N_fit.raised = "None"
                  /\ ref_mat' = [ref_mat EXCEPT !.d13C_fit = d13C_fit.coef,
                                                !.d15N_fit = d15N_fit.coef]
                  /\ d13C_VPDB' = line(d13C_fit.coef, d13C_drift_corr)
                  /\ d15N_AirN2' = line(d15N_fit.coef, d15N_drift_corr)
                  /\ calculation_notes' = Append(calculation_notes,
                         "d15N and d13C were normalized to AirN2 and VPDB, respectively")
                  /\ cal_pc' = "normalized"
                  /\ UNCHANGED cal_exception
    /\ UNCHANGED <<unify, log_data, runs_indices, current_run_index,
                   trust1_currrun_indices, current_data_set, cat_index,
                   non_samples_indices, sample_indices, blank,
                   N_sam_AreaAll_blank_corr, d15N_blank_corr>>
    /\ UNCHANGED <<chosen_input, run_names, ref_mat_globals, qtycal,
                   Nqty, Cqty, PercentN, PercentC, d15N_drift_corr, d13C_drift_corr>>
    /\ UNCHANGED <<cn_vars, io_vars, out_vars>>

\* CN_calibrate.py:345-365: the residuals after the normalization and the
\* entry of the run in the dict of runs
PostResiduals ==
    /\ cal_pc = "normalized"
    /\ LET chosen == set_of(ref_mat.chosen)
           d15N_AirN2_residual == [i \in chosen |-> residual(d15N_AirN2, cat_index[i])]
           d13C_VPDB_residual == [i \in chosen |-> residual(d13C_VPDB, cat_index[i])]
       IN  /\ ref_mat_globals' =
                  [key \in DOMAIN ref_mat_globals |->
                      IF key \in chosen
                      THEN [ref_mat_globals[key] EXCEPT
                               !.d15N_AirN2_residual = d15N_AirN2_residual[key],
                               !.d13C_VPDB_residual = d13C_VPDB_residual[key]]
                      ELSE ref_mat_globals[key]]
           /\ ref_mat' = [ref_mat EXCEPT
                  !.d15N_AirN2_residual_std_sq =
                      std_sq(flatten(ref_mat.chosen, d15N_AirN2_residual)),
                  !.d13C_VPDB_residual_std_sq =
                      std_sq(flatten(ref_mat.chosen, d13C_VPDB_residual))]
    /\ runs_dict' =
           (run_names[current_run_index] :>
               [non_samples_indices |-> non_samples_indices,
                sample_indices |-> sample_indices,
                Identifier1 |-> Identifier1,
                Date |-> Date,
                Analysis |-> Analysis,
                Amount |-> Amount,
                Nqty |-> Nqty,
                d15N_AirN2 |-> d15N_AirN2,
                Cqty |-> Cqty,
                d13C_VPDB |-> d13C_VPDB])
           @@ runs_dict
    /\ cal_pc' = "populated"
    /\ UNCHANGED <<unify, log_data, runs_indices, current_run_index,
                   trust1_currrun_indices, current_data_set, cat_index,
                   non_samples_indices, sample_indices, blank,
                   N_sam_AreaAll_blank_corr, d15N_blank_corr>>
    /\ UNCHANGED <<chosen_input, run_names, qtycal, Nqty, Cqty, PercentN, PercentC,
                   d15N_drift_corr, d13C_drift_corr, d15N_AirN2, d13C_VPDB,
                   cal_exception, calculation_notes>>
    /\ UNCHANGED <<calibrated_data_files, summary_data_file, report>>
    /\ UNCHANGED <<cn_vars, io_vars>>

\* list(set(...)) of small integers: in ascending order
RECURSIVE ascending(_)
ascending(S) ==
    IF S = {} THEN <<>>
    ELSE LET least == CHOOSE i \in S : \A other \in S : i <= other
         IN  <<least>> \o ascending(S \ {least})

\* CN_calibrate.py:722-724: the rows of the calibrated data file; int() of a
\* finite number cuts its fraction off
calibrated_file_headers ==
    <<"Sample ID", "Date", "Analysis Number", "Total Mass (mg)", "Nitrogen mass (mg)",
      "d15N vs AirN2 (permil)", "Carbon mass (mg)", "d13C vs VPDB (permil)">>
data_to_write(ii) ==
    <<Identifier1[ii + 1], Date[ii + 1],
      LET x == Analysis[ii + 1]
      IN  IF x.n >= 0 THEN Num(x.n \div x.d) ELSE Num(0 - ((0 - x.n) \div x.d)),
      Amount[ii + 1],
      round(Nqty[ii + 1], 3), round(d15N_AirN2[ii + 1], 2),
      round(Cqty[ii + 1], 3), round(d13C_VPDB[ii + 1], 2)>>


\* the rows without the empty row between the sections
rows_written_unsectioned(stop) ==
    LET written == non_samples_indices \o ascending(sample_indices)
    IN  <<calibrated_file_headers>> \o [i \in 1..(stop - 1) |-> data_to_write(written[i])]

\* the rows that are written until the row of place `stop` of the records
\* raises: the header, the non samples, an empty row, the samples
rows_written(stop) ==
    LET samples == ascending(sample_indices)
        n == Len(non_samples_indices)
        before == IF stop - 1 < n THEN stop - 1 ELSE n
    IN  <<calibrated_file_headers>>
        \o [i \in 1..before |-> data_to_write(non_samples_indices[i])]
        \o (IF stop > n
            THEN <<<<>>>> \o [i \in 1..(stop - 1 - n) |-> data_to_write(samples[i])]
            ELSE <<>>)

\* CN_calibrate.py:705-756: the report directory (one that is there is moved
\* to the archive), the calibrated data file, written anew, and the summary
\* file, appended to. int() of nan raises ValueError.
WriteOutputs ==
    /\ cal_pc = "populated"
    /\ LET current_run_name == run_names[current_run_index]
           written == non_samples_indices \o ascending(sample_indices)
           raising == {p \in 1..Len(written) : isnan(Analysis[written[p] + 1])}
           stop == IF raising = {} THEN Len(written) + 1
                   ELSE CHOOSE p \in raising : \A other \in raising : p <= other
       IN  /\ report' =
                  (current_run_name :>
                      [page |-> <<>>,
                       archived |-> IF current_run_name \in DOMAIN report
                                    THEN report[current_run_name].archived + 1
                                    ELSE 0])
                  @@ report
           /\ calibrated_data_files' =
                  (current_run_name :> rows_written(stop)) @@ calibrated_data_files
           /\ \/ /\ raising # {}
                 /\ raise("ValueError", IF stop <= Len(non_samples_indices) THEN 729 ELSE 732)
                 /\ UNCHANGED summary_data_file
              \/ /\ raising = {}
                 /\ summary_data_file' =
                        (IF summary_data_file = <<>> THEN <<<<"Run">> \o calibrated_file_headers>>
                         ELSE summary_data_file)
                        \o [i \in 1..Len(written) |->
                               <<current_run_name>> \o data_to_write(written[i])]
                 /\ cal_pc' = "written"
                 /\ UNCHANGED cal_exception
    /\ UNCHANGED <<unify, log_data, runs_indices, current_run_index,
                   trust1_currrun_indices, current_data_set, cat_index,
                   non_samples_indices, sample_indices, blank,
                   N_sam_AreaAll_blank_corr, d15N_blank_corr, calculation_notes>>
    /\ UNCHANGED <<chosen_input, run_names, ref_mat, ref_mat_globals, qtycal,
                   Nqty, Cqty, PercentN, PercentC, d15N_drift_corr, d13C_drift_corr,
                   d15N_AirN2, d13C_VPDB>>
    /\ UNCHANGED runs_dict
    /\ UNCHANGED <<cn_vars, io_vars>>

\* CN_calibrate.py:774-787: the rows of a quality control material in the
\* data quality table. np.std and np.mean for the isotopes, np.nanstd for the
\* quantity. The precisions are kept as their squares.
data_quality_block_1(i) ==
    LET index == cat_index[i]
        Nresidual == minus(take(Nqty, index),
                           scaled(take(Amount, index), accepted(i).fractionN))
    IN  [d15N_precision_sq |-> fmul(Num(4), std_sq(take(d15N_AirN2, index))),
         d15N_accuracy |-> round(fsub(mean(take(d15N_AirN2, index)), accepted(i).d15N), 3),
         d13C_precision_sq |-> fmul(Num(4), std_sq(take(d13C_VPDB, index))),
         d13C_accuracy |-> round(fsub(mean(take(d13C_VPDB, index)), accepted(i).d13C), 3),
         Nqty_precision_sq |->
             fmul(Num(4), std_sq(SelectSeq(Nresidual, LAMBDA x : ~isnan(x))))]

\* CN_calibrate.py:757-927: the page of the report
WriteReport ==
    /\ cal_pc = "written"
    /\ report' = [report EXCEPT ![run_names[current_run_index]].page =
                      <<[calculation_notes |-> calculation_notes,
                         data_quality_block_1 |-> [i \in ref_mat.qaqc |-> data_quality_block_1(i)],
                         data_quality_block_2 |->
                             [d15N_precision_sq |->
                                  fmul(Num(4), ref_mat.d15N_AirN2_residual_std_sq),
                              d13C_precision_sq |->
                                  fmul(Num(4), ref_mat.d13C_VPDB_residual_std_sq)]]>>]
    /\ cal_pc' = "reported"
    /\ UNCHANGED <<unify, log_data, runs_indices, current_run_index,
                   trust1_currrun_indices, current_data_set, cat_index,
                   non_samples_indices, sample_indices, blank,
                   N_sam_AreaAll_blank_corr, d15N_blank_corr, calculation_notes>>
    /\ UNCHANGED <<chosen_input, run_names, ref_mat, ref_mat_globals, qtycal,
                   Nqty, Cqty, PercentN, PercentC, d15N_drift_corr, d13C_drift_corr,
                   d15N_AirN2, d13C_VPDB>>
    /\ UNCHANGED <<cal_exception, runs_dict, calibrated_data_files, summary_data_file>>
    /\ UNCHANGED <<cn_vars, io_vars>>

\* CN_calibrate.py:173: the loop goes on to the next run
NextRun ==
    /\ cal_pc = "reported"
    /\ current_run_index' = current_run_index + 1
    /\ cal_pc' = "run"
    /\ UNCHANGED <<unify, log_data, runs_indices, trust1_currrun_indices,
                   current_data_set, cat_index, non_samples_indices,
                   sample_indices, blank, N_sam_AreaAll_blank_corr,
                   d15N_blank_corr, calculation_notes>>
    /\ UNCHANGED <<cn_vars, io_vars, fit_vars, out_vars>>

NextCal ==
    \/ SelectRun
    \/ AssignIndices
    \/ BlankCorrection
    \/ QuantityCalibration
    \/ CalibrationSetup
    \/ DriftCorrection
    \/ Normalization
    \/ PostResiduals
    \/ WriteOutputs
    \/ WriteReport
    \/ NextRun

SpecCal == InitCal /\ [][NextCal]_vars

\* ================================================================ claims
\* the latest iteration, when it ran to its end
out == last.out
Classified == last.rows >= 1 /\ ~out.raised
\* row j (1-based) of the analysis the latest iteration classified
PeakRow(j) == data[last.index + j]
GasOf(j) == PeakRow(j).Gas
HasNote(text) == \E i \in 1..Len(out.note) : out.note[i] = text
Absent(slot) == slot = <<NoneSlot>>

\* an amplitude of the row is above the saturation threshold
Above(cell) == cell.type = "str" /\ cell.val > SatLimit
SaturatedN(row) == Above(row.Ampl28) \/ Above(row.Ampl29)
SaturatedC(row) == Above(row.Ampl44) \/ Above(row.Ampl45) \/ Above(row.Ampl46)
\* the saturation rule fires on a populated sample slot
SaturationFires ==
    \/ \E i \in 1..Len(out.N_sam) : out.N_sam[i] # NoneSlot /\ SaturatedN(out.N_sam[i])
    \/ \E i \in 1..Len(out.C_sam) : out.C_sam[i] # NoneSlot /\ SaturatedC(out.C_sam[i])

RECURSIVE SeqSum(_)
SeqSum(seq) == IF seq = <<>> THEN 0 ELSE Head(seq) + SeqSum(Tail(seq))

\* C1: once the analyses are grouped, the (first row, row count) pairs
\* partition the rows of a non-empty id column into maximal runs of equal
\* consecutive ids: the first start is 0, starts strictly increase, every
\* count is at least 1, start + count is the next start, the counts sum to the
\* number of rows, the rows of a group share one id, adjacent groups differ.
C1_GroupsAreMaximalRuns ==
    pc \in {"grouped", "loop", "unrecognized", "archived", "junk"} =>
        LET first == sample_index_first_row
            counts == rows_per_sample
            col == AnalysisColumn
            n == Len(first)
        IN  /\ n >= 1
            /\ Len(counts) = n
            /\ first[1] = 0
            /\ \A i \in 1..(n - 1) :
                   first[i] < first[i + 1] /\ first[i] + counts[i] = first[i + 1]
            /\ \A i \in 1..n : counts[i] >= 1
            /\ SeqSum(counts) = Len(col)
            /\ \A i \in 1..n : \A r \in (first[i] + 1)..(first[i] + counts[i]) :
                   col[r] = col[first[i] + 1]
            /\ \A i \in 1..(n - 1) : col[first[i] + 1] # col[first[i + 1] + 1]

\* C1 witness: an id that recurs non-contiguously has formed separate analyses
C1_Witness ==
    /\ pc = "grouped"
    /\ Len(sample_index_first_row) = 3
    /\ data[1].Analysis = data[Len(data)].Analysis
    /\ rows_per_sample[2] >= 2

\* the labels of the file's gas column (none when there is no such column)
FileLabels == IF hasGas THEN {data[i].Gas : i \in 1..Len(data)} ELSE {}

\* C2: once detected, the gas mode is CN iff both N2 and CO2 occur among the
\* file's labels, N iff N2 occurs and CO2 does not, C iff CO2 occurs and N2
\* does not, and unknown otherwise (also without a gas column).
C2_RunTypeFromLabels ==
    pc \in {"loop", "unrecognized", "archived", "junk"} =>
        /\ run_type = "CN" <=> ("N2" \in FileLabels /\ "CO2" \in FileLabels)
        /\ run_type = "N" <=> ("N2" \in FileLabels /\ "CO2" \notin FileLabels)
        /\ run_type = "C" <=> ("CO2" \in FileLabels /\ "N2" \notin FileLabels)
        /\ run_type = "unk" <=> ("N2" \notin FileLabels /\ "CO2" \notin FileLabels)

\* C2 witness: a file with CO2 and a foreign label, but no N2, is C-only
C2_Witness ==
    /\ pc = "loop"
    /\ run_type = "C"
    /\ "Other" \in FileLabels

\* C3: in combined mode a classified 4-row analysis has rows 1..4 in
\* N-reference, N-sample, C-sample, C-reference; a classified 3-row analysis
\* has row 1 in N-reference, row 3 in C-reference and row 2 in N-sample
\* (C-sample absent) when labeled N2, in C-sample (N-sample absent) when
\* labeled CO2; trust is 1 unless the saturation rule fires.
C3_ThreeAndFourRows ==
    (run_type = "CN" /\ Classified /\ last.rows \in {3, 4}) =>
        /\ last.rows = 4 =>
               /\ out.N_wg = <<PeakRow(1)>>
               /\ out.N_sam = <<PeakRow(2)>>
               /\ out.C_sam = <<PeakRow(3)>>
               /\ out.C_wg = <<PeakRow(4)>>
        /\ last.rows = 3 =>
               /\ out.N_wg = <<PeakRow(1)>>
               /\ out.C_wg = <<PeakRow(3)>>
               /\ GasOf(2) = "N2" => (out.N_sam = <<PeakRow(2)>> /\ Absent(out.C_sam))
               /\ GasOf(2) = "CO2" => (out.C_sam = <<PeakRow(2)>> /\ Absent(out.N_sam))
        /\ ~SaturationFires => out.trust = 1

\* C3 witness: a trusted 3-row analysis whose second row is the carbon sample
C3_Witness ==
    /\ run_type = "CN" /\ Classified /\ last.rows = 3
    /\ GasOf(2) = "CO2"
    /\ out.C_sam = <<PeakRow(2)>>
    /\ out.trust = 1

\* the 2-row policy of combined mode, with the two note texts as given
TwoRows(noCarbon, noSample) ==
    (run_type = "CN" /\ Classified /\ last.rows = 2) =>
        /\ out.N_wg = <<PeakRow(1)>>
        /\ GasOf(2) = "N2" =>
               /\ out.N_sam = <<PeakRow(2)>>
               /\ Absent(out.C_sam)
               /\ Absent(out.C_wg)
               /\ HasNote(noCarbon)
        /\ GasOf(2) = "CO2" =>
               /\ out.C_wg = <<PeakRow(2)>>
               /\ Absent(out.N_sam)
               /\ Absent(out.C_sam)
               /\ HasNote(noSample)
        /\ (GasOf(2) \in {"N2", "CO2"} /\ ~SaturationFires) => out.trust = 1

\* C4 as stated: in combined mode a classified 2-row analysis has row 1 in
\* N-reference; row 2 labeled N2 is the N-sample, the carbon slots are absent
\* and the notes contain 'no carbon peaks'; row 2 labeled CO2 is the
\* C-reference, both sample slots are absent and the notes contain
\* 'no nitrogen or carbon sample peaks'; trust is 1 absent saturation.
C4_AsStated == TwoRows("no carbon peaks", "no nitrogen or carbon sample peaks")

\* C4 amended: the same, the notes being 'No carbon peaks' and
\* 'No nitrogen or carbon sample peaks' as the code spells them.
C4_TwoRows == TwoRows("No carbon peaks", "No nitrogen or carbon sample peaks")

\* C4 witness: a trusted 2-row analysis whose second row is the N-sample
C4_Witness ==
    /\ run_type = "CN" /\ Classified /\ last.rows = 2
    /\ GasOf(2) = "N2"
    /\ out.N_sam = <<PeakRow(2)>>
    /\ out.trust = 1
    /\ HasNote("No carbon peaks")

\* both AreaAll cells hold a number
Numeric(cell) == cell.type # "NoneType"

\* C5 as stated: in combined mode a classified 5-row analysis with exactly
\* two N2 labels has rows 1, 2 in N-reference, N-sample, row 5 in C-reference
\* and in C-sample the one of rows 3 and 4 with the larger AreaAll, with a
\* note saying which; C-sample is absent, with trust 0 and the note 'problem
\* with AreaAll data', only when the two values cannot be compared.
C5_LargerAreaIsSample ==
    (run_type = "CN" /\ Classified /\ last.rows = 5 /\ count(last.index, 5, "N2") = 2) =>
        LET a3 == PeakRow(3).AreaAll
            a4 == PeakRow(4).AreaAll
        IN  /\ out.N_wg = <<PeakRow(1)>>
            /\ out.N_sam = <<PeakRow(2)>>
            /\ out.C_wg = <<PeakRow(5)>>
            /\ (Numeric(a3) /\ Numeric(a4) /\ a3.val > a4.val) =>
                   /\ out.C_sam = <<PeakRow(3)>>
                   /\ HasNote("using larger first of two sample peaks")
            /\ (Numeric(a3) /\ Numeric(a4) /\ a4.val > a3.val) =>
                   /\ out.C_sam = <<PeakRow(4)>>
                   /\ HasNote("using larger second of two sample peaks")
            /\ (Absent(out.C_sam) \/ HasNote("problem with AreaAll data")) =>
                   ~(Numeric(a3) /\ Numeric(a4))

\* the gas labels of the analysis the latest iteration classified
GasLabels == [j \in 1..last.rows |-> GasOf(j)]

\* C6 as stated: in combined mode the 5-row analysis labeled
\* [N2,N2,N2,CO2,CO2] gets trust 0 and all four slots absent.
C6_AsStated ==
    (run_type = "CN" /\ Classified /\ GasLabels = <<"N2", "N2", "N2", "CO2", "CO2">>) =>
        /\ out.trust = 0
        /\ Absent(out.N_wg) /\ Absent(out.N_sam)
        /\ Absent(out.C_sam) /\ Absent(out.C_wg)

\* C6 amended: in combined mode the 5-row analysis labeled
\* [N2,N2,N2,CO2,CO2] (CO2 occurs twice) takes the 'N2 has extra' branch:
\* N-reference and N-sample absent, row 4 the C-sample, row 5 the
\* C-reference, note '5 peaks in sample and N2 has extra', no 'something
\* unexpected' note, and trust 1 unless the C-sample is saturated.
C6_ThreeN2TwoCO2 ==
    (run_type = "CN" /\ Classified /\ GasLabels = <<"N2", "N2", "N2", "CO2", "CO2">>) =>
        /\ Absent(out.N_wg) /\ Absent(out.N_sam)
        /\ out.C_sam = <<PeakRow(4)>>
        /\ out.C_wg = <<PeakRow(5)>>
        /\ HasNote("5 peaks in sample and N2 has extra")
        /\ ~HasNote("5 peaks in sample but something unexpected happened")
        /\ out.trust = (IF SaturatedC(PeakRow(4)) THEN 0 ELSE 1)

\* C6 witness: that analysis classified and trusted
C6_Witness ==
    /\ run_type = "CN" /\ Classified
    /\ GasLabels = <<"N2", "N2", "N2", "CO2", "CO2">>
    /\ out.trust = 1
    /\ out.C_sam = <<PeakRow(4)>>

C8_SaturationDistrusts ==
    Classified =>
        /\ \A i \in 1..Len(out.N_sam) : out.N_sam[i] # NoneSlot =>
               /\ out.N_sam[i] = data[out.N_sam[i].Row]
               /\ SaturatedN(out.N_sam[i]) =>
                      (out.trust = 0 /\ HasNote("N2 cup saturated"))
        /\ \A i \in 1..Len(out.C_sam) : out.C_sam[i] # NoneSlot =>
               /\ out.C_sam[i] = data[out.C_sam[i].Row]
               /\ SaturatedC(out.C_sam[i]) =>
                      (out.trust = 0 /\ HasNote("CO2 cup saturated"))
        /\ HasNote("N2 cup saturated") =>
               \E i \in 1..Len(out.N_sam) :
                   out.N_sam[i] # NoneSlot /\ SaturatedN(out.N_sam[i])
        /\ HasNote("CO2 cup saturated") =>
               \E i \in 1..Len(out.C_sam) :
                   out.C_sam[i] # NoneSlot /\ SaturatedC(out.C_sam[i])
        /\ supp_data[Len(supp_data)].trust = out.trust
        /\ supp_data[Len(supp_data)].notes = out.note

\* C8 witness: in N-only mode an N-sample saturated on mass 29 alone is
\* distrusted and keeps its data
C8_Witness ==
    /\ run_type = "N" /\ Classified
    /\ Len(out.N_sam) = 1 /\ out.N_sam[1] # NoneSlot
    /\ out.N_sam[1].Ampl29 = Str(SatLimit + 1)
    /\ out.N_sam[1].Ampl28 = Str(SatLimit - 1)
    /\ out.trust = 0
    /\ HasNote("N2 cup saturated")

\* the rows the latest iteration put into slots
Populated ==
    {e.Row : e \in {x \in {out.N_wg[i] : i \in 1..Len(out.N_wg)}
                          \cup {out.N_sam[i] : i \in 1..Len(out.N_sam)}
                          \cup {out.C_sam[i] : i \in 1..Len(out.C_sam)}
                          \cup {out.C_wg[i] : i \in 1..Len(out.C_wg)} : x # NoneSlot}}
PopulatedCount ==
    Cardinality({i \in 1..Len(out.N_wg) : out.N_wg[i] # NoneSlot})
    + Cardinality({i \in 1..Len(out.N_sam) : out.N_sam[i] # NoneSlot})
    + Cardinality({i \in 1..Len(out.C_sam) : out.C_sam[i] # NoneSlot})
    + Cardinality({i \in 1..Len(out.C_wg) : out.C_wg[i] # NoneSlot})

\* C9 as stated: for every combined-mode analysis of 2, 3 or 4 rows, all
\* labeled N2 or CO2, the iteration ends with trust and notes, each of the
\* four slots has received exactly one outcome (a row or absent), and no
\* row is in two slots.
C9_TotalOnWellFormedLabels ==
    (/\ run_type = "CN"
     /\ last.rows \in 2..4
     /\ \A j \in 1..last.rows : GasOf(j) \in {"N2", "CO2"}) =>
        /\ ~out.raised
        /\ Len(out.N_wg) = 1 /\ Len(out.N_sam) = 1
        /\ Len(out.C_sam) = 1 /\ Len(out.C_wg) = 1
        /\ Cardinality(Populated) = PopulatedCount

\* C10 as stated: a combined-mode analysis of 2 or 3 rows whose second row
\* is labeled neither N2 nor CO2 gets trust 0, a note, and all four slots
\* absent.
C10_UnmatchedIsDistrusted ==
    (run_type = "CN" /\ last.rows \in {2, 3} /\ GasOf(2) \notin {"N2", "CO2"}) =>
        /\ out.trust = 0
        /\ Len(out.note) >= 1
        /\ Absent(out.N_wg) /\ Absent(out.N_sam)
        /\ Absent(out.C_sam) /\ Absent(out.C_wg)

\* the trust and notes the latest iteration appended to the supplemental store
Recorded ==
    /\ Len(supp_data) = Len(meta_data)
    /\ supp_data[Len(supp_data)].trust = out.trust
    /\ supp_data[Len(supp_data)].notes = out.note

AllAbsent ==
    /\ Absent(out.N_wg) /\ Absent(out.N_sam)
    /\ Absent(out.C_sam) /\ Absent(out.C_wg)

\* C11: in combined mode every analysis of exactly 1 row, exactly 6 rows or
\* more than 6 rows ends its iteration without an exception, with trust 0,
\* all four slots absent and exactly one note, which names the condition
\* ('Only one peak detected; ', '6 peaks in sample', 'too many peaks causes
\* anxiety'), whatever its gas labels and amplitude cells are; these are the
\* trust and notes recorded for the analysis.
C11_OneSixOrMorePeaks ==
    (run_type = "CN" /\ (last.rows = 1 \/ last.rows >= 6)) =>
        /\ ~out.raised
        /\ out.trust = 0
        /\ AllAbsent
        /\ out.note = <<IF last.rows = 1 THEN "Only one peak detected; "
                        ELSE IF last.rows = 6 THEN "6 peaks in sample"
                        ELSE "too many peaks causes anxiety">>
        /\ Recorded

\* C11 witnesses: an analysis of more than six peaks, labeled N2 and CO2 only
\* and saturated on every cup, and a single-peak analysis with empty
\* amplitude cells, are distrusted with one note and no slot
C11_Witness ==
    /\ run_type = "CN" /\ last.rows = 7
    /\ \A j \in 1..7 : GasOf(j) \in {"N2", "CO2"} /\ SaturatedN(PeakRow(j))
    /\ out.trust = 0 /\ AllAbsent /\ Len(out.note) = 1

\* the policy of the two single-gas modes, the note of an unexpected peak
\* count in C-only mode being errC
SingleGasModes(errC) ==
    /\ (run_type = "N" /\ Classified) =>
            /\ Absent(out.C_sam) /\ Absent(out.C_wg)
            /\ last.rows = 4 =>
                   /\ out.N_wg = <<PeakRow(2)>>
                   /\ Absent(out.N_sam)
                   /\ out.trust = 1
            /\ last.rows = 5 =>
                   /\ out.N_wg = <<PeakRow(2)>>
                   /\ out.N_sam = <<PeakRow(5)>>
                   /\ HasNote("No nitrogen sample peaks")
                   /\ ~SaturationFires => out.trust = 1
            /\ last.rows \notin {4, 5} =>
                   /\ out.trust = 0
                   /\ Absent(out.N_wg) /\ Absent(out.N_sam)
                   /\ HasNote("Number of peaks suggests an error")
    /\ (run_type = "C" /\ Classified) =>
            /\ Absent(out.N_sam) /\ Absent(out.N_wg)
            /\ last.rows = 4 =>
                   /\ out.C_wg = <<PeakRow(2)>>
                   /\ Absent(out.C_sam)
                   /\ out.trust = 1
            /\ last.rows = 5 =>
                   /\ out.C_wg = <<PeakRow(2)>>
                   /\ out.C_sam = <<PeakRow(5)>>
                   /\ HasNote("No carbon sample peaks")
                   /\ ~SaturationFires => out.trust = 1
            /\ last.rows \notin {4, 5} =>
                   /\ out.trust = 0
                   /\ Absent(out.C_wg) /\ Absent(out.C_sam)
                   /\ HasNote(errC)

\* C12 as stated: in N-only mode a classified analysis has both carbon slots
\* absent; with 4 rows the N-reference is row 2 (offset 1), N-sample is
\* absent and trust is 1; with 5 rows the N-reference is row 2, the N-sample
\* row 5 (offset 4), the note 'No nitrogen sample peaks' is recorded and
\* trust is 1 absent saturation; with any other row count trust is 0, both
\* nitrogen slots are absent and the note 'Number of peaks suggests an error'
\* is recorded. C-only mode is the mirror image with the N and C slots
\* exchanged (its 5-row note being 'No carbon sample peaks').
C12_SingleGasModes == SingleGasModes("Number of peaks suggests an error")

\* what holds of the code: the same, the C-only note of an unexpected peak
\* count being 'Number of peaks suggests and error'
SingleGasModes_asCoded == SingleGasModes("Number of peaks suggests and error")

\* the records of the file being processed in a log
RecordsOf(log) == {i \in 1..Len(log.rows) : log.rows[i].supp.file = file}

\* the analysis (1-based) of the file has a 'Run type unknown' record in the log
UnknownRecord(log, a) ==
    \E i \in RecordsOf(log) :
        /\ log.rows[i].meta = data[sample_index_first_row[a] + 1].Analysis
        /\ log.rows[i].supp.trust = 0
        /\ log.rows[i].supp.notes = <<"Run type unknown">>
        /\ log.rows[i].N_wg = NoneSlot /\ log.rows[i].N_sam = NoneSlot
        /\ log.rows[i].C_sam = NoneSlot /\ log.rows[i].C_wg = NoneSlot

Rejectable ==
    \/ ~hasAnalysis
    \/ \E i \in 1..Len(data) : IntValueError(data[i].Analysis)

\* C14 as stated: once a file without an Analysis column, or with a
\* non-integer value in it, has been tested, it is in the junk folder, the
\* program has not been ended by an exception and is ready for the next
\* file, and none of the file's analyses has been grouped, classified or
\* written to a log.
C14_BadFileIsRejected ==
    (pc # "read" /\ Rejectable) =>
        /\ pc = "rejected"
        /\ exception = "None"
        /\ place[file] = "rawdata_junk"
        /\ meta_data = <<>> /\ supp_data = <<>>
        /\ RecordsOf(exhaustive_log) = {} /\ RecordsOf(project_log) = {}

\* what holds of the code: a file without an Analysis column is rejected
\* that way, and the files after it are still processed
MissingColumnIsRejected ==
    (pc # "read" /\ ~hasAnalysis) =>
        /\ pc = "rejected"
        /\ exception = "None"
        /\ place[file] = "rawdata_junk"
        /\ meta_data = <<>> /\ supp_data = <<>>
        /\ RecordsOf(exhaustive_log) = {} /\ RecordsOf(project_log) = {}

\* seq is a prefix of seq2
IsPrefix(seq, seq2) ==
    Len(seq) <= Len(seq2) /\ \A i \in 1..Len(seq) : seq[i] = seq2[i]

\* C15 as stated, as a property of every state: each of the two logs, once
\* it exists, holds exactly one header row (written when the log was first
\* created and neither repeated nor removed by a later write).
C15_HeaderWrittenOnce ==
    /\ exhaustive_log.exists => exhaustive_log.header = 1
    /\ project_log.exists => project_log.header = 1

\* what holds of the code: a log that exists is never removed, no step
\* changes its header, and its record rows only grow at the end
LogsAppendOnly ==
    [][/\ exhaustive_log.exists =>
              /\ exhaustive_log'.exists
              /\ exhaustive_log'.header = exhaustive_log.header
              /\ IsPrefix(exhaustive_log.rows, exhaustive_log'.rows)
       /\ project_log.exists =>
              /\ project_log'.exists
              /\ project_log'.header = project_log.header
              /\ IsPrefix(project_log.rows, project_log'.rows)]_vars

\* what read_file is to return for a field: None for an absent field (and
\* for the empty text, which is written the same way), the text otherwise
ReadBackOf(v) == IF v = None \/ v = <<>> THEN None ELSE v

\* C16 as stated: a record written with the log writer and read back with
\* read_file has every field in its original column, an absent field being
\* None, whatever the fields hold (the delimiter included).
C16_RoundTrip ==
    io_pc = "read" =>
        /\ Len(row_read) = NFields
        /\ \A i \in 1..NFields : row_read[i] = ReadBackOf(row_to_write[i])

\* what holds of the code: the round trip of a record none of whose fields
\* holds the delimiter, a quote character or '1.#IO'
PlainText(v) == \A i \in 1..Len(v) : v[i] = "a"
RoundTripOfPlainFields ==
    (io_pc = "read" /\ \A i \in 1..NFields : PlainText(row_to_write[i])) =>
        /\ Len(row_read) = NFields
        /\ \A i \in 1..NFields : row_read[i] = ReadBackOf(row_to_write[i])

\* the file has passed the test for file problems: its ids are integers
PassedFileTest ==
    /\ hasAnalysis
    /\ pc \notin {"read", "idle"}
    /\ \A i \in 1..Len(data) : TypeIsInt(data[i].Analysis)

\* C17 as stated: for a file that has passed the file-level checks, whatever
\* the row counts, gas labels and cells of its analyses are (empty amplitude
\* and AreaAll cells included), no iteration of the main loop ends in an
\* exception, every iteration records a trust value and notes, and no
\* exception raised over an analysis (TypeError in the classification,
\* IndexError when its record is written) ends the program.
C17_NoAnalysisAbortsBatch ==
    PassedFileTest =>
        /\ ~out.raised
        /\ last.rows >= 1 => Recorded
        /\ exception \notin {"TypeError", "IndexError"}

\* ---------------------------------------------------- calibration claims
\* strings that differ in the case of their letters only
CaseClasses ==
    {{"GA1", "ga1"}, {"blank", "Blank"}, {"void", "VOID"},
     {"qtycal_GA1", "qtycal_ga1"}, {"qtycal.GA1", "qtycal.ga1"}}
SameIgnoringCase(a, b) == a = b \/ \E class \in CaseClasses : a \in class /\ b \in class

\* the places (from 0) of the kept records that bear a name of the category
PlacesOf(category) ==
    {j \in 0..(Len(current_data_set) - 1) :
        \E name \in names(category) :
            SameIgnoringCase(current_data_set[j + 1].Identifier1, name)}

CurrentRun == {runs_indices[current_run_index][i] : i \in 1..Len(runs_indices[current_run_index])}
TrustedOfRun == {i \in CurrentRun : log_data[i + 1].trust = Str(1)}
NonSamples == {non_samples_indices[i] : i \in 1..Len(non_samples_indices)}

\* C18: in every run exactly the records of the run with trust = 1 are kept
\* and indexed; the non-sample indices are the kept records whose identifier
\* is, ignoring case, a name of some reference / control category; the
\* sample and non-sample index sets are disjoint and together are all the
\* indices of the kept records.
C18_IndexSets ==
    cal_pc \in {"indexed", "blank_corrected"} =>
        /\ Len(trust1_currrun_indices) = Cardinality(TrustedOfRun)
        /\ {trust1_currrun_indices[j] : j \in 1..Len(trust1_currrun_indices)} = TrustedOfRun
        /\ Len(current_data_set) = Cardinality(TrustedOfRun)
        /\ \A j \in 1..Len(current_data_set) :
               current_data_set[j] = log_data[trust1_currrun_indices[j] + 1]
        /\ NonSamples = UNION {PlacesOf(non_samples_list[c]) : c \in 1..Len(non_samples_list)}
        /\ sample_indices \cap NonSamples = {}
        /\ sample_indices \cup NonSamples = 0..(Len(current_data_set) - 1)

\* a run of a log of two runs that has an untrusted record and a kept blank
\* whose identifier is written "Blank"
C18_Witness ==
    /\ cal_pc = "indexed"
    /\ Len(runs_indices) = 2
    /\ TrustedOfRun # CurrentRun
    /\ \E j \in NonSamples : current_data_set[j + 1].Identifier1 = "Blank"

Finite(cell) == cell.type # "NoneType"

RECURSIVE SumOver(_, _)
SumOver(places, value) ==
    IF places = {} THEN 0
    ELSE LET j == CHOOSE j \in places : TRUE
         IN  value[j] + SumOver(places \ {j}, value)

\* the mean of the finite values a column has at the blank records
BlankMean(column) ==
    LET finite == {j \in PlacesOf("blank") : Finite(current_data_set[j + 1][column])}
    IN  Fraction(SumOver(finite, [j \in finite |-> current_data_set[j + 1][column].val]),
                 Cardinality(finite))

BlankCorrectionRule(applies) ==
    cal_pc = "blank_corrected" =>
        LET mean_area == BlankMean("N_sam_AreaAll")
            mean_delta == BlankMean("N_sam_d15N14N")
        IN  /\ calculation_notes =
                   IF applies THEN <<"nitrogen blank correction applied">>
                   ELSE <<"nitrogen blank correction NOT applied">>
            /\ Len(N_sam_AreaAll_blank_corr) = Len(current_data_set)
            /\ Len(d15N_blank_corr) = Len(current_data_set)
            /\ \A j \in 1..Len(current_data_set) :
                   LET area == float(current_data_set[j].N_sam_AreaAll)
                       delta == float(current_data_set[j].N_sam_d15N14N)
                   IN  IF applies
                       THEN /\ N_sam_AreaAll_blank_corr[j] = fsub(area, mean_area)
                            /\ d15N_blank_corr[j] =
                                   fdiv(fsub(fmul(delta, area), fmul(mean_delta, mean_area)),
                                        fsub(area, mean_area))
                       ELSE /\ N_sam_AreaAll_blank_corr[j] = area
                            /\ d15N_blank_corr[j] = delta

\* C19 (as stated): the nitrogen blank correction is applied exactly when
\* some blank record of the run has both a finite peak area and a finite
\* d15N; applied, every record gets area - blank_area_mean and
\* (delta*area - blank_delta_mean*blank_area_mean)/(area - blank_area_mean);
\* otherwise the corrected values are the raw ones; exactly one note says
\* which.
C19_AppliedWhenOneBlankHasBoth ==
    BlankCorrectionRule(\E j \in PlacesOf("blank") :
                            /\ Finite(current_data_set[j + 1].N_sam_AreaAll)
                            /\ Finite(current_data_set[j + 1].N_sam_d15N14N))

\* C19 (amended): the correction is applied exactly when some blank record
\* has a finite peak area and some blank record, the same or another, has a
\* finite d15N; the rest as stated, the means being those of the finite
\* values.
C19_AppliedWhenBlanksHaveEach ==
    BlankCorrectionRule(/\ \E j \in PlacesOf("blank") :
                               Finite(current_data_set[j + 1].N_sam_AreaAll)
                        /\ \E j \in PlacesOf("blank") :
                               Finite(current_data_set[j + 1].N_sam_d15N14N))

\* the correction applied in a run no blank of which has both values, to a
\* record that has both
C19_Witness ==
    /\ cal_pc = "blank_corrected"
    /\ calculation_notes = <<"nitrogen blank correction applied">>
    /\ \A j \in PlacesOf("blank") :
           ~(/\ Finite(current_data_set[j + 1].N_sam_AreaAll)
             /\ Finite(current_data_set[j + 1].N_sam_d15N14N))
    /\ \E j \in 1..Len(current_data_set) :
           /\ current_data_set[j].N_sam_AreaAll = Str(100)
           /\ current_data_set[j].N_sam_d15N14N = Str(0 - 5)
           /\ N_sam_AreaAll_blank_corr[j] # N_sam_AreaAll[j]

\* the run of the example: two blanks of areas 10 and 12 and d15N -2 and -4
ExampleBlanks ==
    /\ cal_pc = "blank_corrected"
    /\ \E p, q \in PlacesOf("blank") :
           /\ p # q
           /\ PlacesOf("blank") = {p, q}
           /\ current_data_set[p + 1].N_sam_AreaAll = Str(10)
           /\ current_data_set[q + 1].N_sam_AreaAll = Str(12)
           /\ {current_data_set[p + 1].N_sam_d15N14N, current_data_set[q + 1].N_sam_d15N14N}
                  = {Str(0 - 2), Str(0 - 4)}
ExampleRecord(j) ==
    /\ current_data_set[j].N_sam_AreaAll = Str(100)
    /\ current_data_set[j].N_sam_d15N14N = Str(0 - 5)

\* a finite number in hundredths, rounded to the nearest
Hundredths(x) == (200 * x.n + x.d) \div (2 * x.d)

BlankCorrectionExample(approximately) ==
    ExampleBlanks =>
        /\ blank = [size_Vs |-> Num(11), d15N |-> Num(0 - 3)]
        /\ \A j \in 1..Len(current_data_set) :
               ExampleRecord(j) =>
                   /\ N_sam_AreaAll_blank_corr[j] = Num(89)
                   /\ d15N_blank_corr[j] = Fraction((0 - 5) * 100 - (0 - 3) * 11, 100 - 11)
                   /\ Hundredths(d15N_blank_corr[j]) = approximately

\* C20 (as stated): with blank areas 10 and 12 (mean 11) and blank d15N -2
\* and -4 (mean -3), a record of area 100 and d15N -5 gets the corrected
\* area 89 and the corrected delta ((-5*100)-(-3*11))/(100-11), which is
\* -5.15 to two decimals.
C20_ExampleIsMinus515 == BlankCorrectionExample(0 - 515)

\* C20 (amended): the same, the corrected delta being -467/89, which is
\* -5.25 to two decimals.
C20_ExampleIsMinus525 == BlankCorrectionExample(0 - 525)

\* the run of the example with its record, corrected
C20_Witness ==
    /\ ExampleBlanks
    /\ \E j \in 1..Len(current_data_set) :
           ExampleRecord(j) /\ Len(d15N_blank_corr) >= j

\* ------------------------------------------------- stores and disposition
\* C28: after each analysis of a file is classified, in every mode and for
\* every row count and label combination, each of the six column stores has
\* received exactly one entry for the analysis: all stores are as long as the
\* number of analyses classified so far.
C28_StoresAligned ==
    (pc = "loop" /\ PassedFileTest) =>
        \A store \in {meta_data, N_wg_data, N_sam_data, C_sam_data, C_wg_data, supp_data} :
            Len(store) = k - 1

\* the file (by its place in the batch) has a record in the log
InLog(log, f) == \E i \in 1..Len(log.rows) : log.rows[i].supp.file = f

\* C29: when the processing of a file is over, the file is in the archive or
\* in the junk folder and no longer among the new files; a file in the
\* archive has its records in both logs; a file in the junk folder has no
\* record in either log; no file that has records in a log is left among the
\* new files, where the next start of the script would append them again.
C29_FileDisposition ==
    pc \in {"archived", "junk", "rejected", "crashed"} =>
        \A f \in 1..file :
            /\ (f < file \/ pc # "crashed") =>
                   place[f] \in {"rawdata_archive", "rawdata_junk"}
            /\ place[f] = "rawdata_archive" =>
                   InLog(exhaustive_log, f) /\ InLog(project_log, f)
            /\ place[f] = "rawdata_junk" =>
                   ~InLog(exhaustive_log, f) /\ ~InLog(project_log, f)
            /\ place[f] = "rawdata_new" =>
                   ~InLog(exhaustive_log, f) /\ ~InLog(project_log, f)

\* ---------------------------------------------------------------------
\* Quantity calibration
\* ---------------------------------------------------------------------

\* the run at hand has its quantities
Quantified ==
    cal_pc \in {"quantified", "set_up", "drift_corrected", "normalized",
                "populated", "written", "reported"}

\* the known masses and the blank-corrected areas of the quantity
\* calibration standards of the run
KnownMassN == scaled(take(Amount, cat_index["qtycal"]), accepted("qtycal").fractionN)
KnownAreaN == take(N_sam_AreaAll_blank_corr, cat_index["qtycal"])

\* the sums of the residuals of a line, and of the residuals times x: both
\* are zero for the line of least squares and for no other line when x has
\* two values
ResidualSums(fit, x, y) ==
    LET res == [i \in 1..Len(x) |-> fsub(y[i], fadd(fmul(fit[1], x[i]), fit[2]))]
    IN  <<fsum(res), fsum([i \in 1..Len(x) |-> fmul(x[i], res[i])])>>

\* C21: the nitrogen fit is the first-order least-squares line of the
\* blank-corrected areas of the quantity calibration standards against their
\* known masses, and the quantity of every record is
\* (area - intercept) / slope: with a slope other than zero the line gives
\* the area of the record back at its quantity. Standards of mass 1 and 2
\* with areas 100 and 200 give the slope 100 and the intercept 0, and a
\* record of area 150 the quantity 1.5.
C21_QuantityInvertsFit ==
    (Quantified /\ isfinite(qtycal.Nfit[1]) /\ isfinite(qtycal.Nfit[2])) =>
        /\ ResidualSums(qtycal.Nfit, KnownMassN, KnownAreaN) = <<Num(0), Num(0)>>
        /\ \A j \in 1..Len(Nqty) :
               LET area == N_sam_AreaAll_blank_corr[j]
               IN  (isfinite(area) /\ qtycal.Nfit[1] # Num(0)) =>
                       /\ isfinite(Nqty[j])
                       /\ fadd(fmul(qtycal.Nfit[1], Nqty[j]), qtycal.Nfit[2]) = area
        /\ (KnownMassN = <<Num(1), Num(2)>> /\ KnownAreaN = <<Num(100), Num(200)>>) =>
               /\ qtycal.Nfit = <<Num(100), Num(0)>>
               /\ \A j \in 1..Len(Nqty) :
                      N_sam_AreaAll_blank_corr[j] = Num(150) => Nqty[j] = Fraction(3, 2)

\* the standards of the example and a record of area 150 are calibrated
C21_Witness ==
    /\ cal_pc = "quantified"
    /\ KnownMassN = <<Num(1), Num(2)>> /\ KnownAreaN = <<Num(100), Num(200)>>
    /\ \E j \in 1..Len(Nqty) :
           N_sam_AreaAll_blank_corr[j] = Num(150) /\ Nqty[j] = Fraction(3, 2)

\* C22: the percent composition of every record is quantity / amount * 100,
\* and exactly 0 where the amount is 0 or missing or the quantity is NaN
C22_PercentOrZero ==
    Quantified =>
        \A j \in 1..Len(PercentN) :
            IF Amount[j] = Num(0) \/ isnan(Amount[j]) \/ isnan(Nqty[j])
            THEN PercentN[j] = Num(0)
            ELSE PercentN[j] = fmul(fdiv(Nqty[j], Amount[j]), Num(100))

\* ---------------------------------------------------------------------
\* Drift correction and degenerate fits
\* ---------------------------------------------------------------------

\* the steps of a run after the drift correction
AfterDrift ==
    \/ cal_pc \in {"drift_corrected", "normalized", "populated", "written", "reported"}
    \/ cal_pc = "crashed" /\ cal_exception.line >= 333

\* no record of a chosen reference material has a finite delta
NoDriftData ==
    LET deltas == chosen_values(N_sam_d15N14N)
    IN  \A i \in 1..Len(deltas) : ~isfinite(deltas[i])

DriftNote == "d15N and d13C were corrected for drift"
HasCalNote(note) == \E i \in 1..Len(calculation_notes) : calculation_notes[i] = note

\* C23: without drift data the run does not stop at the drift fits, the
\* drift-corrected delta is the blank-corrected delta and the notes do not
\* say that the drift was corrected
C23_DriftFallback ==
    (cal_pc # "run" /\ cal_pc # "selected" /\ NoDriftData) =>
        /\ ~(cal_pc = "crashed" /\ cal_exception.line \in {313, 319})
        /\ AfterDrift => d15N_drift_corr = d15N_blank_corr /\ ~HasCalNote(DriftNote)

\* fewer than two distinct values to fit a line through
Degenerate(x) == Cardinality({x[i] : i \in 1..Len(x)}) < 2

\* C24: a fit through fewer than two distinct x values does not end the
\* run, and its results are NaN: the quantities after such a quantity fit,
\* the normalized deltas after such a normalization fit
C24_DegenerateFitNeverAborts ==
    /\ (cal_pc = "crashed" /\ cal_exception.line \in {264, 267}) =>
           ~Degenerate(KnownMassN)
    /\ (cal_pc = "crashed" /\ cal_exception.line \in {313, 319}) =>
           ~Degenerate(chosen_values(Analysis))
    /\ (cal_pc = "crashed" /\ cal_exception.line = 333) =>
           ~Degenerate(measured(d13C_drift_corr))
    /\ (cal_pc = "crashed" /\ cal_exception.line = 338) =>
           ~Degenerate(measured(d15N_drift_corr))
    /\ (Quantified /\ Degenerate(KnownMassN)) =>
           \A j \in 1..Len(Nqty) : isnan(Nqty[j])
    /\ (cal_pc \in {"normalized", "populated", "written", "reported"}
            /\ Degenerate(measured(d15N_drift_corr))) =>
           \A j \in 1..Len(d15N_AirN2) : isnan(d15N_AirN2[j])

\* ---------------------------------------------------------------------
\* Reductions
\* ---------------------------------------------------------------------

SomeFinite(values) == \E i \in 1..Len(values) : isfinite(values[i])

\* C25: a NaN among the values of a category does not make a reduction
\* NaN: neither the pooled precision of the residuals of the chosen
\* reference materials nor the precision and the accuracy of a quality
\* control material in the report, as long as a finite value is left
C25_ReductionsSkipNaN ==
    /\ (cal_pc \in {"set_up", "drift_corrected", "normalized", "populated",
                    "written", "reported"}
            /\ SomeFinite(chosen_values(N_sam_d15N14N))) =>
           ~isnan(ref_mat.d15N_residual_std_sq)
    /\ cal_pc = "reported" =>
           \A i \in ref_mat.qaqc :
               LET block == report[run_names[current_run_index]].page[1].data_quality_block_1[i]
               IN  SomeFinite(take(d15N_AirN2, cat_index[i])) =>
                       /\ ~isnan(block.d15N_precision_sq)
                       /\ ~isnan(block.d15N_accuracy)

\* ---------------------------------------------------------------------
\* Calibrated data file
\* ---------------------------------------------------------------------

\* the identifier is a name of a reference material or a control
IsNonSample(id) ==
    \E c \in 1..Len(non_samples_list) :
        \E name \in names(non_samples_list[c]) : SameIgnoringCase(id, name)

\* the calibrated data file of the run at hand
CurrentFile == calibrated_data_files[run_names[current_run_index]]

\* the rows of the file that are of the record of place i (from 0) of the log
RowsOf(i) ==
    {p \in 2..Len(CurrentFile) :
        /\ Len(CurrentFile[p]) = 8
        /\ CurrentFile[p][1] = log_data[i + 1].Identifier1
        /\ CurrentFile[p][3] = float(log_data[i + 1].Analysis)}

EmptyRows == {p \in 1..Len(CurrentFile) : Len(CurrentFile[p]) = 0}

C30_RunsKeepTheirOutputs ==
    (~unify /\ cal_pc = "reported") =>
        /\ \A r, q \in 1..current_run_index : r # q => run_names[r] # run_names[q]
        /\ Cardinality(DOMAIN runs_dict) = current_run_index
        /\ Cardinality(DOMAIN calibrated_data_files) = current_run_index
        /\ Cardinality(DOMAIN report) = current_run_index
        /\ \A name \in DOMAIN report : report[name].archived = 0

\* the places (from 0) of the kept records of a category, in order
PlacesInOrder(category) == ascending(PlacesOf(category))

\* what the notes of a run are once it is reported
NotesOfRun(blank_applied) ==
    <<IF blank_applied THEN "nitrogen blank correction applied"
      ELSE "nitrogen blank correction NOT applied",
      "nitrogen and carbon quantities calculated from peak area using quantity calibration standards (qtycal) as knowns",
      "d15N and d13C were corrected for drift",
      "d15N and d13C were normalized to AirN2 and VPDB, respectively">>

\* C27: what a run gets is made of its own records only, whatever run was
\* calibrated before it: the index of every category is the places of the
\* records of the run that bear its names; without a blank of its own the
\* run is not blank-corrected, with one it is corrected with the means of
\* its own blanks; the quantity fit is the least-squares line of its own
\* standards; its notes are its own four notes; its entry in the dict of
\* runs holds its own values; and two runs of the same identifiers and
\* amounts, one calibrated after the other, have the same calibrated values
C27_RunsAreIndependent ==
    /\ cal_pc \in {"indexed", "blank_corrected", "quantified", "set_up", "drift_corrected",
                   "normalized", "populated", "written", "reported"} =>
           \A c \in 1..Len(non_samples_list) :
               cat_index[non_samples_list[c]] = PlacesInOrder(non_samples_list[c])
    /\ cal_pc \in {"blank_corrected", "quantified", "set_up", "drift_corrected",
                   "normalized", "populated", "written", "reported"} =>
           IF PlacesOf("blank") = {}
           THEN N_sam_AreaAll_blank_corr = N_sam_AreaAll /\ d15N_blank_corr = N_sam_d15N14N
           ELSE \A j \in 1..Len(current_data_set) :
                    N_sam_AreaAll_blank_corr[j] \in
                        {N_sam_AreaAll[j], fsub(N_sam_AreaAll[j], BlankMean("N_sam_AreaAll"))}
    /\ (Quantified /\ isfinite(qtycal.Nfit[1]) /\ isfinite(qtycal.Nfit[2])) =>
           ResidualSums(qtycal.Nfit, KnownMassN, KnownAreaN) = <<Num(0), Num(0)>>
    /\ cal_pc = "reported" =>
           /\ calculation_notes \in {NotesOfRun(TRUE), NotesOfRun(FALSE)}
           /\ PlacesOf("blank") = {} => calculation_notes = NotesOfRun(FALSE)
           /\ LET entry == runs_dict[run_names[current_run_index]]
              IN  /\ entry.Identifier1 = Identifier1
                  /\ entry.Nqty = Nqty
                  /\ entry.d15N_AirN2 = d15N_AirN2
                  /\ entry.d13C_VPDB = d13C_VPDB
                  /\ Len(entry.Nqty) = Len(current_data_set)
                  /\ Len(entry.d15N_AirN2) = Len(current_data_set)
           /\ \A a, b \in DOMAIN runs_dict :
                  (runs_dict[a].Identifier1 = runs_dict[b].Identifier1
                       /\ runs_dict[a].Amount = runs_dict[b].Amount) =>
                      /\ runs_dict[a].Nqty = runs_dict[b].Nqty
                      /\ runs_dict[a].d15N_AirN2 = runs_dict[b].d15N_AirN2
                      /\ runs_dict[a].d13C_VPDB = runs_dict[b].d13C_VPDB

\* a run without a blank is reported after a run with a blank: the blank of
\* the run before is still in the dict of the blank
C27_Witness ==
    /\ cal_pc = "reported"
    /\ current_run_index = 2
    /\ ~unify
    /\ PlacesOf("blank") = {}
    /\ isfinite(blank.size_Vs) /\ isfinite(blank.d15N)
    /\ \A j \in 1..Len(d15N_AirN2) : isfinite(d15N_AirN2[j])
====
